---- MODULE Spec2Model ----
(***************************************************************************)
(* Live query matcher of corro-types (crates/corro-types/src/pubsub.rs).   *)
(*                                                                         *)
(* The watched statement has the shape of the query of tests::test_diff:   *)
(* a left table joined with LEFT JOIN to a status table, filtered on the   *)
(* status being NULL or 'started':                                         *)
(*                                                                         *)
(*   SELECT a.v FROM A a LEFT JOIN B b ON b.id = a.fk                      *)
(*    WHERE (b.status IS NULL OR b.status = 'started')                     *)
(*                                                                         *)
(* A has primary key id and columns fk, v; B has primary key id and column *)
(* status.  The shadow table therefore has the columns                     *)
(*   __corro_rowid, __corro_pk_a_id, __corro_pk_b_id, col_0.               *)
(*                                                                         *)
(* An SQL value is a sequence: <<>> is NULL and <<x>> is the value x.      *)
(***************************************************************************)
EXTENDS Integers, Sequences, FiniteSets, TLC

\* ------------------------------------------------------------------ bounds
MaxA == 2
MaxB == 1
MaxVal == 2
MaxCmds == 2
MaxMut == 2
MaxJoins == 2
MaxCols == 2
MaxAggs == 1
MaxSubs == 2
MaxInfos == 2
MaxMatchers == 2
MaxIds == 2
MaxRows == 2

AIds == 1..MaxA
BIds == 1..MaxB
Vals == 1..MaxVal

\* A.fk is not changed by the modelled mutations: row a of A references row Fk(a) of B.
Fk(a) == ((a - 1) % MaxB) + 1

SqlNull == <<>>
\* A base table maps a primary key to <<>> (no such row) or to <<x>>, the row's column.
NoRow == <<>>
RowsOf(S) == { <<x>> : x \in S } \cup {NoRow}
Statuses == {"started", "stopped"}

\* ------------------------------------------------------- the SQL engine
\* SQLite's IS: NULL IS NULL is true; here it is equality of SQL values.
SqlIs(x, y) == x = y

\* SQLite's = inside a row-value IN and inside a UNIQUE index: a NULL on either
\* side never compares equal.
SqlEq(x, y) == x # SqlNull /\ y # SqlNull /\ x = y

\* The rows of the rewritten SELECT (synthetic pk columns, then col_0) on a base
\* database: one row per row of A, the B columns NULL when LEFT JOIN finds no B row,
\* kept when the WHERE clause holds.
QueryRows(a_tbl, b_tbl) ==
    LET joined(a) ==
            IF b_tbl[Fk(a)] = NoRow
            THEN [pk_a |-> <<a>>, pk_b |-> SqlNull, status |-> SqlNull, cells |-> a_tbl[a]]
            ELSE [pk_a |-> <<a>>, pk_b |-> <<Fk(a)>>, status |-> b_tbl[Fk(a)],
                  cells |-> a_tbl[a]]
        where(r) == r.status = SqlNull \/ r.status = <<"started">>
    IN  { [pk_a |-> joined(a).pk_a, pk_b |-> joined(a).pk_b, cells |-> joined(a).cells] :
              a \in {x \in AIds : a_tbl[x] # NoRow /\ where(joined(x))} }

\* The synthetic pk column of table t in a row.
PkOf(t, r) == IF t = "A" THEN r.pk_a ELSE r.pk_b

\* new_query without its `AND t.pk IS ?` clause: the whole result.
new_queryAll(a_tbl, b_tbl, t, p) == QueryRows(a_tbl, b_tbl)

\* MatcherStmt.new_query of table t with its `t.pk IS ?` bound to p.
new_query(a_tbl, b_tbl, t, p) == { r \in QueryRows(a_tbl, b_tbl) : SqlIs(PkOf(t, r), <<p>>) }

\* A shadow row without its __corro_rowid.
Strip(r) == [pk_a |-> r.pk_a, pk_b |-> r.pk_b, cells |-> r.cells]

\* MatcherStmt.temp_query of table t with its `__corro_pk_t_id IS ?` bound to p.
temp_query(sh, t, p) == { Strip(r) : r \in { x \in sh : SqlIs(PkOf(t, x), <<p>>) } }

\* Rows in the order the engine returns them: by the left table's key.
RECURSIVE ByPkA(_)
ByPkA(S) ==
    IF S = {} THEN <<>>
    ELSE LET m == CHOOSE r \in S : \A o \in S : r.pk_a[1] <= o.pk_a[1]
         IN  <<m>> \o ByPkA(S \ {m})

RECURSIVE ByRowid(_)
ByRowid(S) ==
    IF S = {} THEN <<>>
    ELSE LET m == CHOOSE r \in S : \A o \in S : r.rowid <= o.rowid
         IN  <<m>> \o ByRowid(S \ {m})

\* The UNIQUE INDEX over the synthetic pk columns: a conflict needs every column
\* equal, and a NULL is equal to nothing.
Conflicts(sh, r) == { x \in sh : SqlEq(x.pk_a, r.pk_a) /\ SqlEq(x.pk_b, r.pk_b) }

\* INSERT ... ON CONFLICT(pk columns) DO UPDATE SET col_0 = excluded.col_0
\* RETURNING __corro_rowid, col_0, over the source rows in order.  AUTOINCREMENT
\* hands out a rowid above every rowid used before; the row of a conflict keeps its
\* rowid.  The result is the table, the sequence and the returned rows.
RECURSIVE Upsert(_, _, _)
Upsert(sh, sq, src) ==
    IF src = <<>> THEN [shadow |-> sh, seq |-> sq, rows |-> <<>>]
    ELSE LET r == Head(src)
             hit == Conflicts(sh, r)
             old == CHOOSE x \in hit : TRUE
             row == IF hit = {}
                    THEN [rowid |-> sq + 1, pk_a |-> r.pk_a, pk_b |-> r.pk_b, cells |-> r.cells]
                    ELSE [old EXCEPT !.cells = r.cells]
             sh1 == IF hit = {} THEN sh \cup {row} ELSE (sh \ {old}) \cup {row}
             rest == Upsert(sh1, sq + 1, Tail(src))
         IN  [shadow |-> rest.shadow, seq |-> rest.seq,
              rows |-> <<[rowid |-> row.rowid, cells |-> row.cells]>> \o rest.rows]

\* The upsert probe without `EXCEPT temp_query`: every current row is upserted.
UpsertProbeNoExcept(sh, sq, a_tbl, b_tbl, t, p) ==
    Upsert(sh, sq, ByPkA(new_query(a_tbl, b_tbl, t, p)))

\* The upsert probe of handle_change:
\*   INSERT INTO shadow SELECT * FROM (new_query EXCEPT temp_query) ... RETURNING
UpsertProbe(sh, sq, a_tbl, b_tbl, t, p) ==
    Upsert(sh, sq, ByPkA(new_query(a_tbl, b_tbl, t, p) \ temp_query(sh, t, p)))

\* The delete probe without `EXCEPT new_query`: every shadow row of the key goes.
DeleteProbeNoExcept(sh, a_tbl, b_tbl, t, p) ==
    LET gone == temp_query(sh, t, p)
        hit == { x \in sh : \E g \in gone : SqlEq(x.pk_a, g.pk_a) /\ SqlEq(x.pk_b, g.pk_b) }
    IN  [shadow |-> sh \ hit,
         rows |-> [i \in 1..Cardinality(hit) |->
                      [rowid |-> ByRowid(hit)[i].rowid, cells |-> ByRowid(hit)[i].cells]]]

\* The delete probe of handle_change:
\*   DELETE FROM shadow WHERE (pk columns) IN
\*     (SELECT pk columns FROM (temp_query EXCEPT new_query)) RETURNING
DeleteProbe(sh, a_tbl, b_tbl, t, p) ==
    LET gone == temp_query(sh, t, p) \ new_query(a_tbl, b_tbl, t, p)
        hit == { x \in sh : \E g \in gone : SqlEq(x.pk_a, g.pk_a) /\ SqlEq(x.pk_b, g.pk_b) }
    IN  [shadow |-> sh \ hit,
         rows |-> [i \in 1..Cardinality(hit) |->
                      [rowid |-> ByRowid(hit)[i].rowid, cells |-> ByRowid(hit)[i].cells]]]


\* ------------------------------------------------------- handle_change
\* What can go wrong inside one handle_change: nothing; conn.transaction(),
\* prepare_cached or raw_bind_parameter returning Err ("begin"); the first
\* rows.next() of a probe returning Err, which `while let Ok(Some(row))` takes for
\* the end of the rows ("upsert_exec", "delete_exec"); row.get(0) of the at-th
\* returned row returning Err ("rowid"); a cell of the at-th row not readable
\* ("cells"); tx.commit() returning Err ("commit").
NoFault == [kind |-> "none", at |-> 0]
Faults ==
    {NoFault} \cup
    { [kind |-> k, at |-> 0] : k \in {"begin", "upsert_exec", "delete_exec", "commit"} } \cup
    { [kind |-> k, at |-> i] : k \in {"rowid", "cells"}, i \in 1..(2 * MaxA) }

Tag(ct, rows) == [i \in 1..Len(rows) |->
                     [change_type |-> ct, rowid |-> rows[i].rowid, cells |-> rows[i].cells]]

\* Matcher::handle_change for ProcessChange(statements[t], <<p>>) on the shadow
\* table sh with AUTOINCREMENT sequence sq and the base tables as the transaction
\* reads them, with nrecv receivers on change_tx.  Gives the shadow table and the
\* sequence afterwards, the rows sent on change_tx in order, the returned result
\* ("Ok", "Sqlite", "ChangeReceiverClosed") and whether the transaction committed.
handle_change(sh, sq, a_tbl, b_tbl, t, p, fault, nrecv) ==
    LET rollback(rows, res) ==
            [shadow |-> sh, seq |-> sq, emitted |-> rows, result |-> res, committed |-> FALSE]
        up == IF fault.kind = "upsert_exec"
              THEN [shadow |-> sh, seq |-> sq, rows |-> <<>>]
              ELSE UpsertProbe(sh, sq, a_tbl, b_tbl, t, p)
        del == IF fault.kind = "delete_exec"
               THEN [shadow |-> up.shadow, rows |-> <<>>]
               ELSE DeleteProbe(up.shadow, a_tbl, b_tbl, t, p)
        all == Tag("Upsert", up.rows) \o Tag("Delete", del.rows)
        rowFault == fault.kind \in {"rowid", "cells"} /\ fault.at <= Len(all)
        stopped(k) == rollback(SubSeq(all, 1, k - 1),
                               IF fault.kind = "rowid" THEN "Sqlite" ELSE "Ok")
    IN  IF fault.kind = "begin" THEN rollback(<<>>, "Sqlite")
        ELSE IF rowFault /\ fault.at = 1 THEN stopped(1)
        ELSE IF nrecv = 0 /\ all # <<>> THEN rollback(<<>>, "ChangeReceiverClosed")
        ELSE IF rowFault THEN stopped(fault.at)
        ELSE IF fault.kind = "commit" THEN rollback(all, "Sqlite")
        ELSE [shadow |-> del.shadow, seq |-> up.seq, emitted |-> all,
              result |-> "Ok", committed |-> TRUE]

\* ------------------------------------------------ the analysis of the statement
\* NormalizedSchema: the tables corrosion knows, each with its columns in schema
\* order and its declared primary key in order.  b has a composite key, as
\* consul_services (node, id) of tests::test_diff; n declares no primary key.
schema ==
    [a |-> [name |-> "a", columns |-> <<"id", "v">>, pk |-> <<"id">>],
     b |-> [name |-> "b", columns |-> <<"k1", "k2", "s">>, pk |-> <<"k1", "k2">>],
     n |-> [name |-> "n", columns |-> <<"c">>, pk |-> <<>>]]

\* What a function of the analysis gives: Ok, an Err(MatcherError) or a panic
\* (todo!(), unreachable!(), expect).
Ok == [kind |-> "Ok", what |-> "", arg |-> ""]
Err(e, x) == [kind |-> "Err", what |-> e, arg |-> x]
Panic(m) == [kind |-> "Panic", what |-> m, arg |-> ""]

\* ResultColumn, SelectTable, JoinConstraint and Expr of sqlite3_parser::ast.
NoExpr == [op |-> "none"]
NoAlias == ""
Qualified(t, c) == [op |-> "Qualified", tbl |-> t, col |-> c]
DoublyQualified(s, t, c) == [op |-> "DoublyQualified", schema |-> s, tbl |-> t, col |-> c]
Name(c) == [op |-> "Name", col |-> c]
Id(c) == [op |-> "Id", col |-> c]
Literal == [op |-> "Literal"]
InTable(lhs, t) == [op |-> "InTable", args |-> <<lhs>>, tbl |-> t]
Binary(l, r) == [op |-> "Binary", args |-> <<l, r>>]
Between(lhs, start, end) == [op |-> "Between", args |-> <<lhs, start, end>>]
IsNull(e) == [op |-> "IsNull", args |-> <<e>>]
Exists(sel) == [op |-> "Exists", args |-> <<>>, select |-> sel]
InSelect(lhs, sel) == [op |-> "InSelect", args |-> <<lhs>>, select |-> sel]
Subquery(sel) == [op |-> "Subquery", args |-> <<>>, select |-> sel]

\* ParsedSelect::default()
NoParsed == [table_columns |-> <<>>, aliases |-> {}, columns |-> <<>>, children |-> <<>>]

\* parsed.table_columns.entry(name).or_default(): an IndexMap keeps the order in
\* which its keys were first inserted.
Entry(tc, name) ==
    IF \E i \in 1..Len(tc) : tc[i].name = name THEN tc
    ELSE Append(tc, [name |-> name, cols |-> {}])

\* parsed.table_columns.entry(name).or_default().insert(col)
EntryInsert(tc, name, col) ==
    [i \in 1..Len(Entry(tc, name)) |->
        IF Entry(tc, name)[i].name = name
        THEN [name |-> name, cols |-> Entry(tc, name)[i].cols \cup {col}]
        ELSE Entry(tc, name)[i]]

\* parsed.aliases.insert(alias, actual)
AliasInsert(al, alias, actual) ==
    { p \in al : p.alias # alias } \cup {[alias |-> alias, actual |-> actual]}

\* parsed.aliases.get(t).unwrap_or(t)
Resolve(al, t) ==
    IF \E p \in al : p.alias = t THEN (CHOOSE p \in al : p.alias = t).actual ELSE t

\* The sub-expressions extract_expr_columns descends into, in order: the lhs of
\* Between but not its bounds, the base, the when and the else of Case but not
\* the then, every operand of the others.
Visited(e) ==
    IF e.op = "Between" THEN <<e.args[1]>>
    ELSE IF e.op = "Case" THEN <<e.args[1], e.args[2], e.args[4]>>
    ELSE e.args

RECURSIVE extract_expr_columns(_, _)
RECURSIVE extract_exprs(_, _)
RECURSIVE extract_select_columns(_)
RECURSIVE extract_columns(_, _, _, _)
RECURSIVE extract_joins(_, _)

\* extract_expr_columns on each expression of es in turn, `?` after each.
extract_exprs(es, parsed) ==
    IF es = <<>> THEN [res |-> Ok, parsed |-> parsed]
    ELSE LET first == extract_expr_columns(Head(es), parsed)
         IN  IF first.res # Ok THEN first ELSE extract_exprs(Tail(es), first.parsed)

\* extract_expr_columns(expr, schema, parsed)
extract_expr_columns(e, parsed) ==
    IF e.op = "Qualified" \/ (e.op = "DoublyQualified" /\ e.schema = "main")
    THEN [res |-> Ok,
          parsed |-> [parsed EXCEPT !.table_columns =
                         EntryInsert(@, Resolve(parsed.aliases, e.tbl), e.col)]]
    ELSE IF e.op = "Name" THEN [res |-> Panic("todo!()"), parsed |-> parsed]
    ELSE IF e.op = "InTable" THEN [res |-> Err("UnsupportedExpr", "InTable"), parsed |-> parsed]
    ELSE IF e.op \in {"Exists", "InSelect", "Subquery"}
    THEN LET lhs == extract_exprs(e.args, parsed)
             child == extract_select_columns(e.select)
         IN  IF lhs.res # Ok THEN lhs
             ELSE IF child.res # Ok THEN [res |-> child.res, parsed |-> lhs.parsed]
             ELSE [res |-> Ok,
                   parsed |-> [lhs.parsed EXCEPT !.children = Append(@, child.parsed)]]
    ELSE IF e.op \in {"Id", "Literal", "none", "DoublyQualified"}
    THEN [res |-> Ok, parsed |-> parsed]
    ELSE extract_exprs(Visited(e), parsed)

\* Expressions that all get the alias of the first.
AliasedOnce(exprs, i) == [k \in 1..Len(exprs) |-> [expr |-> exprs[k], as |-> i]]

\* ResultColumn::Expr(expr, Some(As::As(Name(format!("col_{i}"))))) for each
\* expression in turn, with `i += 1` after each: the alias col_i is the number i.
Aliased(exprs, i) == [k \in 1..Len(exprs) |-> [expr |-> exprs[k], as |-> i + k - 1]]

\* table.columns.keys() as expressions made by mk, and their insertion into the
\* table's entry of table_columns.
StarColumns(parsed, t, names, i) ==
    [parsed EXCEPT
        !.table_columns =
            [k \in 1..Len(Entry(@, schema[t].name)) |->
                IF Entry(@, schema[t].name)[k].name = schema[t].name
                THEN [name |-> schema[t].name,
                      cols |-> Entry(@, schema[t].name)[k].cols \cup
                               { schema[t].columns[c] : c \in 1..Len(schema[t].columns) }]
                ELSE Entry(@, schema[t].name)[k]],
        !.columns = @ \o Aliased(names, i)]

\* extract_columns(columns, from, schema, parsed), from its column number i on.
extract_columns(columns, from, parsed, i) ==
    IF columns = <<>> THEN [res |-> Ok, parsed |-> parsed]
    ELSE LET col == Head(columns)
         IN  IF col.kind = "Expr"
             THEN LET r == extract_expr_columns(col.expr, parsed)
                  IN  IF r.res # Ok THEN r
                      ELSE extract_columns(Tail(columns), from,
                               [r.parsed EXCEPT !.columns = @ \o Aliased(<<col.expr>>, i)],
                               i + 1)
             ELSE IF col.kind = "Star"
             THEN IF from = NoAlias THEN [res |-> Panic("unreachable!()"), parsed |-> parsed]
                  ELSE IF from \in DOMAIN schema
                  THEN extract_columns(Tail(columns), from,
                           StarColumns(parsed, from,
                               [c \in 1..Len(schema[from].columns) |->
                                   Name(schema[from].columns[c])], i),
                           i + Len(schema[from].columns))
                  ELSE [res |-> Err("TableStarNotFound", from), parsed |-> parsed]
             ELSE LET name == Resolve(parsed.aliases, col.tbl)
                  IN  IF name \in DOMAIN schema
                      THEN extract_columns(Tail(columns), from,
                               StarColumns(parsed, name,
                                   [c \in 1..Len(schema[name].columns) |->
                                       Qualified(col.tbl, schema[name].columns[c])], i),
                               i + Len(schema[name].columns))
                      ELSE [res |-> Err("TableStarNotFound", name), parsed |-> parsed]

\* The alias of a SelectTable::Table enters parsed.aliases.
WithAlias(parsed, tbl) ==
    IF tbl.alias = NoAlias THEN parsed
    ELSE [parsed EXCEPT !.aliases = AliasInsert(@, tbl.alias, tbl.name)]

\* The loop over from.joins: a table of a JOIN enters aliases and table_columns
\* with no look at the schema; ON is analysed, USING adds its columns.
extract_joins(joins, parsed) ==
    IF joins = <<>> THEN [res |-> Ok, parsed |-> parsed]
    ELSE LET join == Head(joins)
             p1 == [WithAlias(parsed, join.table) EXCEPT
                       !.table_columns = Entry(@, join.table.name)]
             on == extract_expr_columns(join.constraint.expr, p1)
             using == [p1 EXCEPT !.table_columns =
                          [k \in 1..Len(@) |->
                              IF @[k].name = join.table.name
                              THEN [name |-> @[k].name,
                                    cols |-> @[k].cols \cup join.constraint.names]
                              ELSE @[k]]]
         IN  IF join.table.kind # "Table" THEN extract_joins(Tail(joins), parsed)
             ELSE IF join.constraint.kind = "On"
             THEN IF on.res # Ok THEN on ELSE extract_joins(Tail(joins), on.parsed)
             ELSE IF join.constraint.kind = "Using"
             THEN extract_joins(Tail(joins), using)
             ELSE extract_joins(Tail(joins), p1)

\* A FROM table that is taken without a look at the schema, as the JOIN tables.
FromKnownAlways(name) == TRUE

\* schema.tables.contains_key(name) for the table of FROM.
FromKnown(name) == name \in DOMAIN schema

\* extract_select_columns(select, schema)
extract_select_columns(select) ==
    IF select.body # "Select" THEN [res |-> Ok, parsed |-> NoParsed]
    ELSE IF select.from.kind = "None"
    THEN extract_columns(select.columns, NoAlias, NoParsed, 0)
    ELSE IF select.from.kind = "Table" /\ ~FromKnown(select.from.name)
    THEN [res |-> Err("TableNotFound", select.from.name), parsed |-> NoParsed]
    ELSE LET p0 == IF select.from.kind = "Table"
                   THEN [WithAlias(NoParsed, select.from) EXCEPT
                            !.table_columns = Entry(@, select.from.name)]
                   ELSE NoParsed
             from_table == IF select.from.kind = "Table" THEN select.from.name ELSE NoAlias
             joined == extract_joins(select.joins, p0)
             filtered == extract_expr_columns(select.where_clause, joined.parsed)
         IN  IF joined.res # Ok THEN joined
             ELSE IF filtered.res # Ok THEN filtered
             ELSE extract_columns(select.columns, from_table, filtered.parsed, 0)

\* ------------------------------------------------------------- the state
VARIABLES
    pc,          \* where the matcher task is
    dbA, dbB,    \* the base tables: id -> <<v>>, id -> <<status>>, or NoRow
    table,       \* whether watches.query_{id} exists
    shadow,      \* the committed rows of watches.query_{id}
    seq,         \* its AUTOINCREMENT sequence (committed)
    txn,         \* the snapshot transaction: its rows, sequence and unsent rows
    openTx,      \* transactions begun on the matcher's connection and not ended
    cmd_rx,      \* the command inbox, oldest first
    cur,         \* the command the task took from the inbox
    nextNo,      \* calls of the matcher's callers so far, plus one
    lastNo,      \* the number of the last command taken from the inbox
    receivers,   \* change_tx.receiver_count()
    cancelled,   \* the cancellation token
    exit,        \* why the task ended
    init_open,   \* the init channel's receiver exists
    init_unread, \* messages in the init channel
    init_log,    \* every message sent on the init channel, oldest first
    dirty,       \* the (table, pk) mutated and not processed cleanly since
    nMut,        \* changes of base rows so far
    step,        \* what the last step did: a process_change call, a handle_change,
                 \* an Unsubscribe taken and dropped
    sql,         \* the statement Matcher::new was called with
    ctor,        \* Matcher::new: where it is, and parsed, pks, statements so far
    returned,    \* what Matcher::new returned: nothing yet, Ok, an Err, a panic
    subscriber,  \* a Subscriber: its variant, its subscriptions, its sender
    sub_ret,     \* the last call on the Subscriber and what it returned
    sub_last,    \* per id, the info last inserted and not removed since
    matcher,     \* the matchers on one watches attachment: the id and the place of each
    tables,      \* the tables of the database they share: absent, or their rows
    wstep        \* the last step of one of these matchers: whose, and the rows it sent

vars == <<pc, dbA, dbB, table, shadow, seq, txn, openTx, cmd_rx, cur, nextNo, lastNo,
          receivers, cancelled, exit, init_open, init_unread, init_log, dirty, nMut,
          step, sql, ctor, returned, subscriber, sub_ret, sub_last,
          matcher, tables, wstep>>

\* The variables of Matcher::new taken step by step.
cvars == <<sql, ctor, returned>>

\* No statement under analysis: Matcher::new is taken as a whole (MatcherNew).
NoSql == [cmd |-> "None", select |-> [body |-> "None"]]
NoCtor == [at |-> "idle", parsed |-> NoParsed, pks |-> <<>>, statements |-> {}, k |-> 1]
NotReturned == [kind |-> "None", what |-> "", arg |-> ""]

\* The variables of the Subscriber index, which no matcher touches.
ovars == <<subscriber, sub_ret, sub_last>>

\* SubscriptionId, SubscriptionInfo and the UnboundedSender of a Local subscriber.
SubscriptionIds == 1..MaxSubs
SubscriptionInfos == 1..MaxInfos
Senders == {"tx1", "tx2"}
NoSender == ""
NoInfo == 0

\* Option<T> and ().
None == [some |-> FALSE]
Some(x) == [some |-> TRUE, value |-> x]
NoRet == [op |-> "none"]

\* Subscriber::Local {subscriptions, sender} and Subscriber::Global {subscriptions}.
Local(subs, tx) == [variant |-> "Local", subscriptions |-> subs, sender |-> tx]
Global(subs) == [variant |-> "Global", subscriptions |-> subs, sender |-> NoSender]

\* No Subscriber is under study.
NoSubscriber ==
    /\ subscriber = Global(<<>>)
    /\ sub_ret = NoRet
    /\ sub_last = [id \in SubscriptionIds |-> NoInfo]

\* The variables of the matchers that share a watches attachment.
wvars == <<matcher, tables, wstep>>

\* The matchers, the ids their callers may pass to Matcher::new (a caller may
\* pass the same id twice) and the rows of the base table by primary key.
Matchers == 1..MaxMatchers
Ids == 1..MaxIds
Rows == 1..MaxRows
NoId == 0
\* A table of the database: absent, or there with its rows.
NoTable == [exists |-> FALSE, rows |-> {}]
Table(rows) == [exists |-> TRUE, rows |-> rows]

\* A table name that leaves the id out: format!("query_1").
query_tableShared(id) == <<"query_", 1>>

\* format!("query_{}", id.as_simple())
query_table(id) == <<"query_", id>>
\* format!("watches.{query_table}")
qualified_table_name(id) == <<"watches", query_table(id)>>
\* An unqualified table name in a statement: no table of main has the name of a
\* shadow table, so the engine finds it in the attached database.
Unqualified(name) == <<"watches", name>>
\* The base table of the query, in main.
BaseTable == <<"main", <<"A", 0>>>>
DbTables == {BaseTable} \cup { <<"watches", <<"query_", id>>>> : id \in Ids }

NoWStep == [by |-> 0, op |-> "none", from |-> BaseTable, rows |-> {}, committed |-> FALSE]

\* No matchers on a shared attachment are under study.
NoWatches ==
    /\ matcher = [m \in Matchers |-> [id |-> NoId, at |-> "none"]]
    /\ tables = [t \in DbTables |-> IF t = BaseTable THEN Table({}) ELSE NoTable]
    /\ wstep = NoWStep

NoOthers == NoSubscriber /\ NoWatches

\* The capacity of the command inbox: mpsc::channel(512).
CmdCap == 512
\* The capacity of the init channel, which the caller of Matcher::new chooses
\* (tests::test_diff: mpsc::channel(1)), and the receivers change_tx may have.
InitCap == 1
MaxRecv == 1

\* Matcher.statements: one MatcherStmt per table of parsed.table_columns.
statements == {"A", "B"}
Tables == statements \cup {"other"}
PksOf(t) == IF t = "A" THEN AIds ELSE IF t = "B" THEN BIds ELSE {1}
Keys == { [table |-> "A", pk |-> p] : p \in AIds } \cup
        { [table |-> "B", pk |-> p] : p \in BIds }

NoTxn == [shadow |-> {}, seq |-> 0, pending |-> <<>>]
NoCmd == [type |-> "None", table |-> "", pk |-> 0, no |-> 0, early |-> FALSE]
NoStep == [kind |-> "none"]
NoKey == [table |-> "", pk |-> 0]

\* RowResult messages on the init channel.
Columns == [type |-> "Columns", change_type |-> ""]
\* A Row whose cells are read one column too early: row.get(0..n-1).
SnapshotRowOffByOne(r) ==
    [type |-> "Row", change_type |-> "Upsert", rowid |-> r.rowid, cells |-> <<r.rowid>>]
\* RowResult::Row {change_type: Upsert, rowid, cells} of a returned row r of the
\* snapshot: rowid is column 0, the cells are the columns 1..=query_cols.len().
SnapshotRow(r) ==
    [type |-> "Row", change_type |-> "Upsert", rowid |-> r.rowid, cells |-> r.cells]
EndOfQuery == [type |-> "EndOfQuery", change_type |-> ""]
ErrorMsg == [type |-> "Error", change_type |-> ""]

Init ==
    /\ pc = "new"
    /\ dbA = [a \in AIds |-> NoRow]
    /\ dbB = [b \in BIds |-> NoRow]
    /\ table = FALSE
    /\ shadow = {}
    /\ seq = 0
    /\ txn = NoTxn
    /\ openTx = 0
    /\ cmd_rx = <<>>
    /\ cur = NoCmd
    /\ nextNo = 1
    /\ lastNo = 0
    /\ receivers = 1
    /\ cancelled = FALSE
    /\ exit = ""
    /\ init_open = TRUE
    /\ init_unread = 0
    /\ init_log = <<>>
    /\ dirty = {}
    /\ nMut = 0
    /\ step = NoStep
    /\ sql = NoSql
    /\ ctor = NoCtor
    /\ returned = NotReturned
    /\ NoOthers

\* A task without the _drop_guard.
TaskEndsNoGuard(why) ==
    /\ pc' = "ended"
    /\ exit' = why
    /\ cancelled' = cancelled
    /\ cmd_rx' = <<>>

\* The spawned task returns: its _drop_guard cancels the token and cmd_rx is
\* dropped with the commands still in it.
TaskEnds(why) ==
    /\ pc' = "ended"
    /\ exit' = why
    /\ cancelled' = TRUE
    /\ cmd_rx' = <<>>

\* init_tx.send(msg).await with the receiver alive: it waits for room.
InitSend(msg) ==
    /\ init_open
    /\ init_unread < InitCap
    /\ init_unread' = init_unread + 1
    /\ init_log' = Append(init_log, msg)
    /\ UNCHANGED init_open


\* ------------------------------------------ Matcher::new and the snapshot
\* Matcher::new up to tokio::spawn: the analysis of the statement, then the shadow
\* DDL (CREATE TABLE; CREATE UNIQUE INDEX) in one execute_batch.  An analysis error
\* returns before the DDL; an error of the batch may leave the table behind.
MatcherNew ==
    /\ pc = "new"
    /\ \/ /\ pc' = "send_columns"
          /\ table' = TRUE
          /\ exit' = exit
       \/ /\ pc' = "ctor_err"
          /\ exit' = "analysis_error"
          /\ table' = table
       \/ /\ pc' = "ctor_err"
          /\ exit' = "ddl_error"
          /\ table' \in BOOLEAN
    /\ step' = NoStep
    /\ UNCHANGED <<dbA, dbB, shadow, seq, txn, openTx, cmd_rx, cur, nextNo, lastNo,
                   receivers, cancelled, init_open, init_unread, init_log, dirty, nMut>>

\* init_tx.send(RowResult::Columns(col_names)).await, and `return` on Err.
SendColumns ==
    /\ pc = "send_columns"
    /\ \/ /\ InitSend(Columns)
          /\ pc' = "snapshot"
          /\ UNCHANGED <<exit, cancelled, cmd_rx>>
       \/ /\ ~init_open
          /\ TaskEnds("init_closed")
          /\ UNCHANGED <<init_open, init_unread, init_log>>
    /\ step' = NoStep
    /\ UNCHANGED <<dbA, dbB, table, shadow, seq, txn, openTx, cur, nextNo, lastNo,
                   receivers, dirty, nMut>>

\* conn.transaction(), tx.prepare(INSERT INTO shadow <the rewritten SELECT>
\* RETURNING ...) and prepped.query(()): the INSERT reads the base tables and
\* inserts every row; an Err of any of them is the block's result.
SnapshotBegin ==
    /\ pc = "snapshot"
    /\ \/ LET ins == Upsert({}, seq, ByPkA(QueryRows(dbA, dbB)))
          IN  /\ txn' = [shadow |-> ins.shadow, seq |-> ins.seq, pending |-> ins.rows]
              /\ openTx' = openTx + 1
              /\ pc' = "snapshot_rows"
              /\ dirty' = {}
       \/ /\ pc' = "snapshot_err"
          /\ UNCHANGED <<txn, openTx, dirty>>
    /\ step' = NoStep
    /\ UNCHANGED <<dbA, dbB, table, shadow, seq, cmd_rx, cur, nextNo, lastNo, receivers,
                   cancelled, exit, init_open, init_unread, init_log, nMut>>

\* One turn of the loop over the returned rows: rows.next(), row.get, and
\* init_tx.blocking_send(Row {Upsert, rowid, cells}).  An Err of the engine or a
\* closed init channel ends the block with Err and the transaction is dropped.
SnapshotSendRow ==
    /\ pc = "snapshot_rows"
    /\ txn.pending # <<>>
    /\ \/ /\ InitSend(SnapshotRow(Head(txn.pending)))
          /\ txn' = [txn EXCEPT !.pending = Tail(@)]
          /\ UNCHANGED <<pc, openTx>>
       \/ /\ ~init_open
          /\ pc' = "snapshot_err"
          /\ txn' = NoTxn
          /\ openTx' = openTx - 1
          /\ UNCHANGED <<init_open, init_unread, init_log>>
       \/ /\ pc' = "snapshot_err"
          /\ txn' = NoTxn
          /\ openTx' = openTx - 1
          /\ UNCHANGED <<init_open, init_unread, init_log>>
    /\ step' = NoStep
    /\ UNCHANGED <<dbA, dbB, table, shadow, seq, cmd_rx, cur, nextNo, lastNo, receivers,
                   cancelled, exit, dirty, nMut>>

\* A snapshot whose failed tx.commit() is not noticed.
SnapshotCommitSwallowed ==
    /\ pc = "snapshot_rows"
    /\ txn.pending = <<>>
    /\ \/ /\ shadow' = txn.shadow
          /\ seq' = txn.seq
          /\ pc' = "send_eoq"
       \/ /\ pc' = "send_eoq"
          /\ UNCHANGED <<shadow, seq>>
    /\ txn' = NoTxn
    /\ openTx' = openTx - 1
    /\ step' = NoStep
    /\ UNCHANGED <<dbA, dbB, table, cmd_rx, cur, nextNo, lastNo, receivers, cancelled,
                   exit, init_open, init_unread, init_log, dirty, nMut>>

\* rows.next() gives None, then tx.commit().
SnapshotCommit ==
    /\ pc = "snapshot_rows"
    /\ txn.pending = <<>>
    /\ \/ /\ shadow' = txn.shadow
          /\ seq' = txn.seq
          /\ pc' = "send_eoq"
       \/ /\ pc' = "snapshot_err"
          /\ UNCHANGED <<shadow, seq>>
    /\ txn' = NoTxn
    /\ openTx' = openTx - 1
    /\ step' = NoStep
    /\ UNCHANGED <<dbA, dbB, table, cmd_rx, cur, nextNo, lastNo, receivers, cancelled,
                   exit, init_open, init_unread, init_log, dirty, nMut>>

\* A task that sends the Error and goes on to EndOfQuery.
SendErrorContinues ==
    /\ pc = "snapshot_err"
    /\ InitSend(ErrorMsg)
    /\ pc' = "send_eoq"
    /\ step' = NoStep
    /\ UNCHANGED <<dbA, dbB, table, shadow, seq, txn, openTx, cmd_rx, cur, nextNo, lastNo,
                   receivers, cancelled, exit, dirty, nMut>>

\* `_ = init_tx.send(RowResult::Error(..)).await; return`.
SendError ==
    /\ pc = "snapshot_err"
    /\ \/ InitSend(ErrorMsg)
       \/ /\ ~init_open
          /\ UNCHANGED <<init_open, init_unread, init_log>>
    /\ TaskEnds("snapshot_error")
    /\ step' = NoStep
    /\ UNCHANGED <<dbA, dbB, table, shadow, seq, txn, openTx, cur, nextNo, lastNo,
                   receivers, dirty, nMut>>

\* init_tx.send(RowResult::EndOfQuery).await, and `return` on Err.
SendEndOfQuery ==
    /\ pc = "send_eoq"
    /\ \/ /\ InitSend(EndOfQuery)
          /\ pc' = "loop"
          /\ UNCHANGED <<exit, cancelled, cmd_rx>>
       \/ /\ ~init_open
          /\ TaskEnds("init_closed")
          /\ UNCHANGED <<init_open, init_unread, init_log>>
    /\ step' = NoStep
    /\ UNCHANGED <<dbA, dbB, table, shadow, seq, txn, openTx, cur, nextNo, lastNo,
                   receivers, dirty, nMut>>


\* --------------------------------------------------------- the event loop
Key(c) == [table |-> c.table, pk |-> c.pk]

\* A loop that takes commands before it has sent EndOfQuery.
LoopReadyEarly == pc \in {"loop", "send_eoq"}

\* A loop that takes the next command while handle_change is still running.
LoopReadyBusy == pc \in {"loop", "handle"}

\* The task is at the tokio::select! of its loop, which it enters after EndOfQuery
\* and comes back to when the command it took has been handled.
LoopReady == pc = "loop"

\* A receive that takes the newest command.
recvNewest(q) == [req |-> q[Len(q)], rest |-> SubSeq(q, 1, Len(q) - 1)]

\* cmd_rx.recv(): the oldest command, and the inbox without it.
recv(q) == [req |-> Head(q), rest |-> Tail(q)]

\* An Unsubscribe arm that does not look at the receivers.
NoReceiversAlways == TRUE

\* matcher.0.change_tx.receiver_count() == 0
NoReceivers == receivers = 0

\* tokio::select! gives Some(req) = cmd_rx.recv().  A ProcessChange enters
\* handle_change, which begins its transaction; an Unsubscribe breaks out of the
\* loop when change_tx has no receiver and is dropped otherwise.
RecvCmd ==
    /\ LoopReady
    /\ cmd_rx # <<>>
    /\ cmd_rx' = recv(cmd_rx).rest
    /\ lastNo' = recv(cmd_rx).req.no
    /\ \/ /\ recv(cmd_rx).req.type = "ProcessChange"
          /\ cur' = recv(cmd_rx).req
          /\ openTx' = openTx + 1
          /\ pc' = "handle"
          /\ exit' = exit
          /\ step' = IF step.kind = "handle" THEN step ELSE NoStep
       \/ /\ recv(cmd_rx).req.type = "Unsubscribe"
          /\ NoReceivers
          /\ pc' = "drop"
          /\ exit' = "unsubscribed"
          /\ step' = NoStep
          /\ UNCHANGED <<cur, openTx>>
       \/ /\ recv(cmd_rx).req.type = "Unsubscribe"
          /\ ~NoReceivers
          /\ step' = [kind |-> "unsubscribe"]
          /\ UNCHANGED <<pc, exit, cur, openTx>>
    /\ UNCHANGED <<dbA, dbB, table, shadow, seq, txn, nextNo, receivers, cancelled,
                   init_open, init_unread, init_log, dirty, nMut>>

\* tokio::select! gives cancel.cancelled(): `return`, past the DROP TABLE.
CancelledExit ==
    /\ LoopReady
    /\ cancelled
    /\ TaskEnds("cancelled")
    /\ step' = NoStep
    /\ UNCHANGED <<dbA, dbB, table, shadow, seq, txn, openTx, cur, nextNo, lastNo,
                   receivers, init_open, init_unread, init_log, dirty, nMut>>

\* The last step was a handle_change of the same (table, pk) that committed with
\* no failure, and nothing but the taking of command c has happened since.
Again(c) ==
    /\ step.kind = "handle"
    /\ step.committed
    /\ step.fault = "none"
    /\ step.table = c.table
    /\ step.pk = c.pk

\* A loop that logs ChangeReceiverClosed like any other Err and goes on.
BreaksLoopNever(result) == FALSE

\* matches!(e, MatcherError::ChangeReceiverClosed): the Err that breaks the loop.
BreaksLoop(result) == result = "ChangeReceiverClosed"

\* block_in_place(|| matcher.handle_change(&mut conn, stmt, pks)) and the match on
\* its result: ChangeReceiverClosed breaks out of the loop, any other Err is logged.
HandleChange ==
    /\ pc = "handle"
    /\ \E fault \in Faults :
          LET r == handle_change(shadow, seq, dbA, dbB, cur.table, cur.pk, fault, receivers)
              clean == r.committed /\ fault = NoFault
          IN  /\ fault.kind \in {"rowid", "cells"} =>
                     fault.at <= Len(handle_change(shadow, seq, dbA, dbB, cur.table, cur.pk,
                                                   NoFault, 1).emitted)
              /\ shadow' = r.shadow
              /\ seq' = r.seq
              /\ step' = [kind |-> "handle", table |-> cur.table, pk |-> cur.pk,
                          fault |-> fault.kind, emitted |-> r.emitted, result |-> r.result,
                          committed |-> r.committed, before |-> shadow, no |-> cur.no,
                          early |-> cur.early,
                          again |-> Again(cur),
                          first |-> IF Again(cur) THEN step.emitted ELSE <<>>]
              /\ dirty' = IF clean THEN dirty \ {Key(cur)} ELSE dirty
              /\ IF BreaksLoop(r.result)
                 THEN pc' = "drop" /\ exit' = "receiver_closed"
                 ELSE pc' = "loop" /\ exit' = exit
    /\ cur' = NoCmd
    /\ openTx' = openTx - 1
    /\ UNCHANGED <<dbA, dbB, table, txn, cmd_rx, nextNo, lastNo, receivers, cancelled,
                   init_open, init_unread, init_log, nMut>>

\* conn.execute_batch("DROP TABLE watches.query_{id}") after the loop; an Err is
\* logged.  Then the task ends.
DropTable ==
    /\ pc = "drop"
    /\ \/ table' = FALSE /\ shadow' = {}
       \/ UNCHANGED <<table, shadow>>
    /\ TaskEnds(exit)
    /\ step' = NoStep
    /\ UNCHANGED <<dbA, dbB, seq, txn, openTx, cur, nextNo, lastNo, receivers,
                   init_open, init_unread, init_log, dirty, nMut>>

\* ------------------------------------------------- the matcher's callers
\* EndOfQuery has been sent on the init channel.
LoopEntered == \E i \in 1..Len(init_log) : init_log[i] = EndOfQuery

\* A has_match that accepts every table.
has_matchAny(t) == TRUE

\* Matcher::has_match
has_match(t) == t \in statements

\* A try_send on an inbox without a capacity.
ChannelClosedOnly == pc = "ended"

\* Whether cmd_tx.try_send fails: the inbox is full, or its receiver is gone.
ChannelClosedOrFull == pc = "ended" \/ Len(cmd_rx) >= CmdCap

\* Matcher::process_change(agg) with agg.table = t and agg.pk = p.
process_change(t, p) ==
    /\ pc \notin {"new", "ctor_err"}
    /\ nextNo <= MaxCmds
    /\ nextNo' = nextNo + 1
    /\ IF t \notin statements
       THEN /\ step' = [kind |-> "call", table |-> t, pk |-> p, result |-> "Ok",
                        enqueued |-> FALSE, inbox |-> cmd_rx]
            /\ UNCHANGED cmd_rx
       ELSE IF ChannelClosedOrFull
       THEN /\ step' = [kind |-> "call", table |-> t, pk |-> p,
                        result |-> "ChangeQueueClosedOrFull", enqueued |-> FALSE,
                        inbox |-> cmd_rx]
            /\ UNCHANGED cmd_rx
       ELSE /\ cmd_rx' = Append(cmd_rx, [type |-> "ProcessChange", table |-> t, pk |-> p,
                                         no |-> nextNo, early |-> ~LoopEntered])
            /\ step' = [kind |-> "call", table |-> t, pk |-> p, result |-> "Ok",
                        enqueued |-> TRUE, inbox |-> cmd_rx]
    /\ UNCHANGED <<pc, dbA, dbB, table, shadow, seq, txn, openTx, cur, lastNo, receivers,
                   cancelled, exit, init_open, init_unread, init_log, dirty, nMut>>

ProcessChange == \E t \in Tables : \E p \in PksOf(t) : process_change(t, p)

\* A holder of the matcher sends MatcherCmd::Unsubscribe on cmd_tx().
Unsubscribe ==
    /\ pc \notin {"new", "ctor_err"}
    /\ ~ChannelClosedOrFull
    /\ nextNo <= MaxCmds
    /\ cmd_rx' = Append(cmd_rx, [type |-> "Unsubscribe", table |-> "", pk |-> 0, no |-> nextNo,
                                 early |-> ~LoopEntered])
    /\ nextNo' = nextNo + 1
    /\ step' = NoStep
    /\ UNCHANGED <<pc, dbA, dbB, table, shadow, seq, txn, openTx, cur, lastNo, receivers,
                   cancelled, exit, init_open, init_unread, init_log, dirty, nMut>>

\* Matcher::subscribe, and a receiver of change_tx being dropped.
Subscribe ==
    /\ pc \notin {"new", "ctor_err", "ended"}
    /\ receivers < MaxRecv
    /\ receivers' = receivers + 1
    /\ step' = NoStep
    /\ UNCHANGED <<pc, dbA, dbB, table, shadow, seq, txn, openTx, cmd_rx, cur, nextNo,
                   lastNo, cancelled, exit, init_open, init_unread, init_log, dirty, nMut>>

DropReceiver ==
    /\ pc \notin {"ctor_err", "ended"}
    /\ receivers > 0
    /\ receivers' = receivers - 1
    /\ step' = NoStep
    /\ UNCHANGED <<pc, dbA, dbB, table, shadow, seq, txn, openTx, cmd_rx, cur, nextNo,
                   lastNo, cancelled, exit, init_open, init_unread, init_log, dirty, nMut>>

\* The holder of the CancellationToken trips it.
Cancel ==
    /\ pc \notin {"new", "ctor_err", "ended"}
    /\ ~cancelled
    /\ cancelled' = TRUE
    /\ step' = NoStep
    /\ UNCHANGED <<pc, dbA, dbB, table, shadow, seq, txn, openTx, cmd_rx, cur, nextNo,
                   lastNo, receivers, exit, init_open, init_unread, init_log, dirty, nMut>>

\* The receiver of the init channel takes a message, or is dropped.
InitRecv ==
    /\ init_open
    /\ init_unread > 0
    /\ init_unread' = init_unread - 1
    /\ step' = NoStep
    /\ UNCHANGED <<pc, dbA, dbB, table, shadow, seq, txn, openTx, cmd_rx, cur, nextNo,
                   lastNo, receivers, cancelled, exit, init_open, init_log, dirty, nMut>>

InitClose ==
    /\ pc \in {"send_columns", "snapshot", "snapshot_rows", "snapshot_err", "send_eoq"}
    /\ init_open
    /\ init_open' = FALSE
    /\ init_unread' = 0
    /\ step' = NoStep
    /\ UNCHANGED <<pc, dbA, dbB, table, shadow, seq, txn, openTx, cmd_rx, cur, nextNo,
                   lastNo, receivers, cancelled, exit, init_log, dirty, nMut>>

\* Another connection commits a change of one base row: an insert, an update or a
\* delete.  A change the snapshot's INSERT reads needs no processing of its own.
Running == pc \notin {"ctor_err", "ended"}
SnapshotRead == pc \notin {"new", "send_columns", "snapshot"}

MutateA ==
    /\ Running
    /\ \E a \in AIds : \E v \in RowsOf(Vals) \ {dbA[a]} :
          /\ dbA' = [dbA EXCEPT ![a] = v]
          /\ dirty' = IF SnapshotRead THEN dirty \cup {[table |-> "A", pk |-> a]} ELSE dirty
    /\ nMut < MaxMut
    /\ nMut' = nMut + 1
    /\ step' = NoStep
    /\ UNCHANGED <<pc, dbB, table, shadow, seq, txn, openTx, cmd_rx, cur, nextNo, lastNo,
                   receivers, cancelled, exit, init_open, init_unread, init_log>>

MutateB ==
    /\ Running
    /\ \E b \in BIds : \E v \in RowsOf(Statuses) \ {dbB[b]} :
          /\ dbB' = [dbB EXCEPT ![b] = v]
          /\ dirty' = IF SnapshotRead THEN dirty \cup {[table |-> "B", pk |-> b]} ELSE dirty
    /\ nMut < MaxMut
    /\ nMut' = nMut + 1
    /\ step' = NoStep
    /\ UNCHANGED <<pc, dbA, table, shadow, seq, txn, openTx, cmd_rx, cur, nextNo, lastNo,
                   receivers, cancelled, exit, init_open, init_unread, init_log>>

\* The steps of the spawned task.
TaskStep ==
    \/ SendColumns
    \/ SnapshotBegin
    \/ SnapshotSendRow
    \/ SnapshotCommit
    \/ SendError
    \/ SendEndOfQuery
    \/ RecvCmd
    \/ CancelledExit
    \/ HandleChange
    \/ DropTable

\* ------------------------------------------------ the statements given to new
\* The database the connection is opened on has the tables of the schema and a
\* table x that the schema does not have.
DbColumns(t) == IF t \in DOMAIN schema THEN schema[t].columns ELSE <<"id">>

Source(t, al) == [kind |-> "Table", name |-> t, alias |-> al]
SubSelect == [kind |-> "Sub", name |-> "", alias |-> "s"]
NoFrom == [kind |-> "None", name |-> "", alias |-> NoAlias]
Qual(src) == IF src.alias = NoAlias THEN src.name ELSE src.alias
Col1(src) == DbColumns(src.name)[1]

NoConstraint == [kind |-> "None", expr |-> NoExpr, names |-> {}]
On(e) == [kind |-> "On", expr |-> e, names |-> {}]
Using(S) == [kind |-> "Using", expr |-> NoExpr, names |-> S]

ExprColumn(e) == [kind |-> "Expr", expr |-> e, tbl |-> ""]
Star == [kind |-> "Star", expr |-> NoExpr, tbl |-> ""]
TableStar(t) == [kind |-> "TableStar", expr |-> NoExpr, tbl |-> t]

\* SELECT 1 FROM t
SelectOneFrom(t) ==
    [body |-> "Select", from |-> Source(t, NoAlias), joins |-> <<>>,
     where_clause |-> NoExpr, columns |-> <<ExprColumn(Literal)>>]

Froms ==
    {Source("a", NoAlias), Source("a", "t"), Source("b", "t"), Source("n", NoAlias),
     Source("x", NoAlias), SubSelect}

\* The joins a statement may have after its FROM source: none, or up to MaxJoins
\* of another table, of the same table under another alias, of a sub-select.
JoinsOne(src) ==
    { [table |-> Source("b", NoAlias), constraint |-> NoConstraint],
      [table |-> Source("b", "u"), constraint |-> On(Binary(Qualified("u", "k1"), Literal))],
      [table |-> Source("x", NoAlias), constraint |-> NoConstraint],
      [table |-> Source("x", "u"), constraint |-> On(IsNull(Qualified("u", "id")))],
      [table |-> Source("n", NoAlias), constraint |-> NoConstraint],
      [table |-> SubSelect, constraint |-> NoConstraint] } \cup
    (IF src.kind = "Table" /\ src.name = "a"
     THEN { [table |-> Source("a", "u"), constraint |-> NoConstraint],
            [table |-> Source("x", "u"), constraint |-> Using({"id"})] }
     ELSE {})
Distinct(js) ==
    \A i, j \in 1..Len(js) : i # j => Qual(js[i].table) # Qual(js[j].table)
JoinsOf(src) ==
    { js \in UNION { [1..k -> JoinsOne(src)] : k \in 0..MaxJoins } :
        /\ Distinct(js)
        /\ \A i \in 1..Len(js) : Qual(js[i].table) # Qual(src) }

\* The expressions a WHERE clause may be, over the FROM source.
Wheres(src) ==
    IF src.kind # "Table" THEN {NoExpr, Literal}
    ELSE {NoExpr,
          Qualified(Qual(src), Col1(src)),
          Binary(Id(Col1(src)), Literal),
          Binary(Literal, Name(Col1(src))),
          Between(Literal, Name(Col1(src)), Literal),
          InTable(Qualified(Qual(src), Col1(src)), "a"),
          Between(Literal, InTable(Literal, "a"), Literal),
          Exists(SelectOneFrom("a")),
          InSelect(Qualified(Qual(src), Col1(src)), SelectOneFrom("x"))} \cup
         (IF src.alias = NoAlias
          THEN {DoublyQualified("main", src.name, Col1(src))} ELSE {})

\* The result columns: up to MaxCols of an expression, *, or source.*.
ResultColumns(src, js) ==
    {ExprColumn(Literal), Star} \cup
    (IF src.kind = "Table"
     THEN {ExprColumn(Qualified(Qual(src), Col1(src))), TableStar(Qual(src))} ELSE {}) \cup
    { TableStar(Qual(js[i].table)) : i \in 1..Len(js) }
ColumnsOf(src, js) ==
    UNION { [1..k -> ResultColumns(src, js)] : k \in 1..MaxCols }

\* What the caller may pass as sql: text the lexer rejects, an empty text, an
\* EXPLAIN, a statement that is not a SELECT, VALUES, a SELECT without FROM, and
\* the SELECTs over the sources above.
NoSelect ==
    [body |-> "None", from |-> NoFrom, joins |-> <<>>, where_clause |-> NoExpr,
     columns |-> <<>>]
SqlInputs ==
    { [cmd |-> c, select |-> NoSelect] : c \in {"LexerError", "None", "Explain", "Other"} } \cup
    { [cmd |-> "Select", select |-> [NoSelect EXCEPT !.body = "Values"]],
      [cmd |-> "Select",
       select |-> [NoSelect EXCEPT !.body = "Select", !.columns = <<ExprColumn(Literal)>>]] } \cup
    { [cmd |-> "Select",
       select |-> [body |-> "Select", from |-> src, joins |-> js, where_clause |-> w,
                   columns |-> cols]] :
        <<src, js, w, cols>> \in
            UNION { UNION { {s} \X {j} \X Wheres(s) \X ColumnsOf(s, j) : j \in JoinsOf(s) } :
                      s \in Froms } }

\* ------------------------------------------------- Matcher::new, step by step
\* The variables no step of Matcher::new before tokio::spawn touches.
ctorKeeps == <<dbA, dbB, shadow, seq, txn, openTx, cmd_rx, cur, nextNo, lastNo, receivers,
               cancelled, init_open, init_unread, init_log, dirty, nMut, step, ovars, wvars>>

\* A constructor that runs the shadow DDL before it builds the statements.
FollowingDdlFirst(at) ==
    IF at = "prepare" THEN "analyze"
    ELSE IF at = "analyze" THEN "rewrite"
    ELSE IF at = "rewrite" THEN "ddl"
    ELSE IF at = "ddl" THEN "statements"
    ELSE IF at = "statements" THEN "spawn"
    ELSE "returned"

\* The order of Matcher::new: conn.prepare(sql) for the column names, the parse and
\* the analysis, the rewritten projection and pks, the loop that builds
\* statements, the shadow DDL, tokio::spawn and Ok(matcher).
Following(at) ==
    IF at = "prepare" THEN "analyze"
    ELSE IF at = "analyze" THEN "rewrite"
    ELSE IF at = "rewrite" THEN "statements"
    ELSE IF at = "statements" THEN "ddl"
    ELSE IF at = "ddl" THEN "spawn"
    ELSE "returned"

\* `return Err(e)`, `?` on an Err, or a panic: Matcher::new is over.
Return(r) ==
    /\ returned' = r
    /\ ctor' = [ctor EXCEPT !.at = "returned"]
    /\ pc' = "ctor_err"
    /\ exit' = r.what

\* conn.prepare(sql)?.column_names(): the engine compiles the text against the
\* database, which may lack a table the text names.
Prepare ==
    /\ ctor.at = "prepare"
    /\ \/ /\ ctor' = [ctor EXCEPT !.at = Following(@)]
          /\ UNCHANGED <<returned, pc, exit>>
       \/ Return(Err("Sqlite", "prepare"))
    /\ UNCHANGED <<sql, table>>
    /\ UNCHANGED ctorKeeps

\* parser.next()?.ok_or(StatementRequired)?, the match on the Cmd and on the Stmt,
\* extract_select_columns(select, schema)? and the TableRequired check.
Analysis(s) ==
    IF s.cmd = "LexerError" THEN [res |-> Err("Lexer", ""), parsed |-> NoParsed]
    ELSE IF s.cmd \in {"None", "Explain"}
    THEN [res |-> Err("StatementRequired", ""), parsed |-> NoParsed]
    ELSE IF s.cmd # "Select" THEN [res |-> Err("UnsupportedStatement", ""), parsed |-> NoParsed]
    ELSE LET r == extract_select_columns(s.select)
         IN  IF r.res = Ok /\ r.parsed.table_columns = <<>>
             THEN [res |-> Err("TableRequired", ""), parsed |-> r.parsed]
             ELSE r

Analyze ==
    /\ ctor.at = "analyze"
    /\ IF Analysis(sql).res = Ok
       THEN /\ ctor' = [ctor EXCEPT !.at = Following(@), !.parsed = Analysis(sql).parsed]
            /\ UNCHANGED <<returned, pc, exit>>
       ELSE Return(Analysis(sql).res)
    /\ UNCHANGED <<sql, table>>
    /\ UNCHANGED ctorKeeps

\* aliases.iter().find_map(|(alias, actual)| (actual == tbl_name).then_some(alias))
\* .unwrap_or(tbl_name): any alias of the table, in the order the HashMap happens
\* to iterate, or the table's own name.
AliasesOf(aliases, t) ==
    IF \E p \in aliases : p.actual = t THEN { p.alias : p \in { x \in aliases : x.actual = t } }
    ELSE {t}

\* The names of parsed.table_columns, in order.
TableNames(parsed) == [k \in 1..Len(parsed.table_columns) |-> parsed.table_columns[k].name]

\* The synthetic key columns `tbl.pk AS __corro_pk_{tbl}_{pk}` of the tables of
\* names that the schema has, with the alias alias_of[t] for table t: the entries of pks,
\* keyed by table.name.  A table without primary-key columns gets no entry.
RECURSIVE SyntheticPks(_, _)
SyntheticPks(names, alias_of) ==
    IF names = <<>> THEN <<>>
    ELSE LET t == Head(names)
         IN  (IF t \in DOMAIN schema /\ schema[t].pk # <<>>
              THEN <<[table |-> schema[t].name,
                      cols |-> [i \in 1..Len(schema[t].pk) |->
                                   [tbl |-> alias_of[t], pk |-> schema[t].pk[i]]]]>>
              ELSE <<>>) \o SyntheticPks(Tail(names), alias_of)

\* pks.values().flatten(): every synthetic key column, in order.
RECURSIVE Flatten(_)
Flatten(pks) == IF pks = <<>> THEN <<>> ELSE Head(pks).cols \o Flatten(Tail(pks))

\* The rewrite of the projection (lines 334-385): pks and the new result columns.
Rewrite ==
    /\ ctor.at = "rewrite"
    /\ \E alias_of \in
           [ { ctor.parsed.table_columns[k].name : k \in 1..Len(ctor.parsed.table_columns) }
               -> { p.alias : p \in ctor.parsed.aliases } \cup
                  { ctor.parsed.table_columns[k].name :
                        k \in 1..Len(ctor.parsed.table_columns) } ] :
          /\ \A t \in DOMAIN alias_of : alias_of[t] \in AliasesOf(ctor.parsed.aliases, t)
          /\ ctor' = [ctor EXCEPT !.at = Following(@),
                                  !.pks = SyntheticPks(TableNames(ctor.parsed), alias_of)]
    /\ UNCHANGED <<sql, returned, pc, exit, table>>
    /\ UNCHANGED ctorKeeps

\* table_to_expr(aliases, tbl, table) with the alias find_map gave: NoPrimaryKey
\* when tbl.pk is empty, else `alias.pk IS ?` for each pk column in declared order.
table_to_expr(alias, tbl) ==
    IF tbl.pk = <<>> THEN [res |-> Err("NoPrimaryKey", alias), filter |-> <<>>]
    ELSE [res |-> Ok,
          filter |-> [i \in 1..Len(tbl.pk) |-> [tbl |-> alias, pk |-> tbl.pk[i]]]]

\* pks.get(tbl_name)
PksGet(pks, t) ==
    IF \E k \in 1..Len(pks) : pks[k].table = t
    THEN pks[CHOOSE k \in 1..Len(pks) : pks[k].table = t].cols
    ELSE <<>>

\* statements.insert(tbl_name, stmt): a HashMap has one entry per key.
StatementsInsert(stmts, t, stmt) == { s \in stmts : s.table # t } \cup {stmt}

\* One turn of `for (tbl_name, _cols) in parsed.table_columns.iter()`: the schema
\* lookup with expect, table_to_expr, new_query with the filter ANDed in front of
\* the WHERE clause, temp_query over the shadow table filtered by pks.get(tbl_name).
Statement ==
    /\ ctor.at = "statements"
    /\ LET t == ctor.parsed.table_columns[ctor.k].name
           last == ctor.k = Len(ctor.parsed.table_columns)
       IN  IF t \notin DOMAIN schema
           THEN Return(Panic("this should not happen, missing table in schema"))
           ELSE \E alias \in AliasesOf(ctor.parsed.aliases, t) :
                   LET e == table_to_expr(alias, schema[t])
                   IN  IF e.res # Ok THEN Return(e.res)
                       ELSE IF PksGet(ctor.pks, t) = <<>>
                       THEN Return(Err("MissingPrimaryKeys", ""))
                       ELSE /\ ctor' =
                                 [ctor EXCEPT
                                    !.statements =
                                        StatementsInsert(@, t,
                                            [table |-> t,
                                             new_query |-> [filter |-> e.filter],
                                             temp_query |-> [filter |-> PksGet(ctor.pks, t)]]),
                                    !.k = IF last THEN @ ELSE @ + 1,
                                    !.at = IF last THEN Following(@) ELSE @]
                            /\ UNCHANGED <<returned, pc, exit>>
    /\ UNCHANGED <<sql, table>>
    /\ UNCHANGED ctorKeeps

\* conn.execute_batch("CREATE TABLE watches.query_{id} (...); CREATE UNIQUE INDEX
\* ..."): the two statements run one after the other, so an Err may come with
\* the table already created.
CreateTable ==
    /\ ctor.at = "ddl"
    /\ \/ /\ table' = TRUE
          /\ ctor' = [ctor EXCEPT !.at = Following(@)]
          /\ UNCHANGED <<returned, pc, exit>>
       \/ /\ table' \in BOOLEAN
          /\ Return(Err("Sqlite", "execute_batch"))
    /\ UNCHANGED sql
    /\ UNCHANGED ctorKeeps

\* tokio::spawn of the task, then Ok(matcher).
Spawn ==
    /\ ctor.at = "spawn"
    /\ ctor' = [ctor EXCEPT !.at = "returned"]
    /\ returned' = Ok
    /\ pc' = "send_columns"
    /\ UNCHANGED <<sql, exit, table>>
    /\ UNCHANGED ctorKeeps

\* ------------------------------------------- process_change with its aggregate
\* AggregateChange {table, pk}: pk maps each primary-key column of the table to
\* its value (column i has the value i here), and the map hands out its entries
\* in an order of its own.
Orders(S) == { o \in [1..Cardinality(S) -> S] : \A i, j \in DOMAIN o : o[i] = o[j] => i = j }
PkIndex(t, c) == CHOOSE i \in 1..Len(schema[t].pk) : schema[t].pk[i] = c
\* evt_type is one of ChangeEvent; version stands for what else the record
\* carries (actor_id, version, data).
ChangeEvent == {"Insert", "Update", "Delete"}
AggregateChanges ==
    UNION { { [table |-> t,
               pk |-> [i \in DOMAIN o |-> [col |-> o[i], val |-> PkIndex(t, o[i])]],
               evt_type |-> e,
               version |-> v] :
                o \in Orders({ schema[t].pk[i] : i \in 1..Len(schema[t].pk) }),
                e \in ChangeEvent,
                v \in 1..MaxVal } :
            t \in DOMAIN schema }

\* agg.pk.values().map(|v| v.to_owned()).collect()
PkValues(agg) == [i \in 1..Len(agg.pk) |-> agg.pk[i].val]

\* self.0.statements.get(agg.table)
StatementsGet(stmts, t) == { s \in stmts : s.table = t }

\* A command whose key is empty when the aggregate says Delete.
MatcherCmdByEvent(agg, no, early) ==
    [type |-> "ProcessChange", table |-> agg.table,
     pk |-> IF agg.evt_type = "Delete" THEN <<>> ELSE PkValues(agg),
     no |-> no, early |-> early]

\* MatcherCmd::ProcessChange(stmt.clone(), agg.pk.values()...collect()); the
\* statement is the one of agg.table, no and early are the model's bookkeeping.
MatcherCmdProcessChange(agg, no, early) ==
    [type |-> "ProcessChange", table |-> agg.table, pk |-> PkValues(agg),
     no |-> no, early |-> early]

\* Matcher::process_change(agg) on a constructed matcher.
ProcessChangeAgg ==
    /\ returned = Ok
    /\ nextNo <= MaxAggs
    /\ nextNo' = nextNo + 1
    /\ \E agg \in AggregateChanges :
          IF StatementsGet(ctor.statements, agg.table) = {}
          THEN /\ step' = [kind |-> "agg", agg |-> agg, result |-> "Ok", enqueued |-> FALSE]
               /\ UNCHANGED cmd_rx
          ELSE IF ChannelClosedOrFull
          THEN /\ step' = [kind |-> "agg", agg |-> agg, result |-> "ChangeQueueClosedOrFull",
                           enqueued |-> FALSE]
               /\ UNCHANGED cmd_rx
          ELSE /\ cmd_rx' = Append(cmd_rx, MatcherCmdProcessChange(agg, nextNo, ~LoopEntered))
               /\ step' = [kind |-> "agg", agg |-> agg, result |-> "Ok", enqueued |-> TRUE]
    /\ UNCHANGED <<pc, dbA, dbB, table, shadow, seq, txn, openTx, cur, lastNo, receivers,
                   cancelled, exit, init_open, init_unread, init_log, dirty, nMut>>
    /\ UNCHANGED <<cvars, ovars, wvars>>


\* ------------------------------------------------------------ the claims
\* The inbox is drained: the task is back at its select! with nothing to take, and
\* every (table, pk) mutated since the snapshot read has been processed cleanly.
Drained == pc = "loop" /\ cmd_rx = <<>> /\ dirty = {}

\* The shadow rows that stand for the result row q: same base-table keys, same cells.
Representing(q) == { s \in shadow : Strip(s) = q }

\* C1, shadow equivalence: once every mutated row's (table, pk) has been delivered
\* and processed without error, the shadow table holds exactly the rows of the
\* query over the committed base tables, and each result row is represented by
\* exactly one shadow row that carries its base-table keys.
C1_ShadowEquivalence ==
    Drained =>
        /\ { Strip(s) : s \in shadow } = QueryRows(dbA, dbB)
        /\ \A q \in QueryRows(dbA, dbB) : Cardinality(Representing(q)) = 1
        /\ Cardinality(shadow) = Cardinality(QueryRows(dbA, dbB))

\* C2, emission soundness: after a handle_change, every Upsert row it sent on
\* change_tx is a shadow row with that rowid and those cells, and every Delete row
\* it sent is no longer a shadow row, whether or not the processing failed later.
C2_EmissionSoundness ==
    step.kind = "handle" =>
        \A i \in 1..Len(step.emitted) :
            LET e == step.emitted[i]
            IN  IF e.change_type = "Upsert"
                THEN \E s \in shadow : s.rowid = e.rowid /\ s.cells = e.cells
                ELSE \A s \in shadow : s.rowid # e.rowid

\* C3, idempotence: processing the same (table, pk) a second time, with the base
\* tables unchanged since the first processing committed, sends no row and leaves
\* the shadow table as it was.  Stated of the step taken (a handle_change right
\* after a clean one of the same key) and of the step about to be taken (what a
\* second handle_change would do after the one the task is in).
C3_Idempotence ==
    /\ (step.kind = "handle" /\ step.again) =>
           (step.emitted = <<>> /\ shadow = step.before)
    /\ pc = "handle" =>
           LET one == handle_change(shadow, seq, dbA, dbB, cur.table, cur.pk, NoFault, receivers)
               two == handle_change(one.shadow, one.seq, dbA, dbB, cur.table, cur.pk,
                                    NoFault, receivers)
           IN  one.committed => (two.emitted = <<>> /\ two.shadow = one.shadow)

\* A second processing has run after a first one that sent rows.
C3_Witness ==
    /\ step.kind = "handle"
    /\ step.again
    /\ step.committed
    /\ step.first # <<>>

\* C4, irrelevance: process_change for a table that is no key of statements
\* returns Ok and touches neither the database, the shadow table nor the inbox;
\* has_match is true exactly for the keys of statements, which are exactly the
\* tables process_change enqueues a command for (when the inbox takes it).
C4_IrrelevanceStep ==
    step'.kind = "call" =>
        /\ (has_match(step'.table) <=> step'.table \in statements)
        /\ (step'.enqueued => has_match(step'.table))
        /\ ((has_match(step'.table) /\ ~ChannelClosedOrFull) => step'.enqueued)
        /\ (step'.enqueued <=> cmd_rx' # cmd_rx)
        /\ (step'.table \notin statements =>
                /\ step'.result = "Ok"
                /\ ~step'.enqueued
                /\ UNCHANGED <<cmd_rx, shadow, seq, table, txn, openTx, pc, cur, dbA, dbB,
                               receivers, init_log>>)
C4_Irrelevance == [][C4_IrrelevanceStep]_vars

\* process_change was called for the irrelevant table while a command waited.
C4_Witness ==
    /\ step.kind = "call"
    /\ step.table = "other"
    /\ step.inbox # <<>>
    /\ cmd_rx = step.inbox

\* The shape of what the init channel was sent: Columns first, then Rows that are
\* all Upserts, then at most one closing message.
SnapshotShape(log) ==
    /\ log # <<>> => log[1] = Columns
    /\ \A i \in 2..Len(log) :
          /\ log[i].type \in {"Row", "EndOfQuery", "Error"}
          /\ log[i].type = "Row" => log[i].change_type = "Upsert"
          /\ log[i].type \in {"EndOfQuery", "Error"} => i = Len(log)
RowsSent(log) == Cardinality({ i \in 1..Len(log) : log[i].type = "Row" })

\* C5, snapshot stream shape: the init channel gets Columns first, sent when the
\* shadow table exists; then zero or more Rows, all Upserts; then at most one
\* EndOfQuery, sent when the snapshot transaction has committed the rows sent.
C5_SnapshotStreamStep ==
    /\ SnapshotShape(init_log')
    /\ (init_log = <<>> /\ init_log' # <<>>) => table
    /\ (~LoopEntered /\ LoopEntered') =>
           (openTx = 0 /\ txn = NoTxn /\ Cardinality(shadow) = RowsSent(init_log))
C5_SnapshotStreamShape == [][C5_SnapshotStreamStep]_vars

\* A whole snapshot with a row has been sent.
C5_Witness ==
    /\ Len(init_log) >= 3
    /\ init_log[Len(init_log)] = EndOfQuery
    /\ RowsSent(init_log) >= 1

\* C6, snapshot before deltas: no handle_change runs, and so no Row goes out on
\* change_tx, before EndOfQuery has been sent on the init channel, also for a
\* change that process_change enqueued while the snapshot was still running.
C6_SnapshotBeforeDeltas ==
    /\ pc = "handle" => LoopEntered
    /\ step.kind = "handle" => LoopEntered

\* A change enqueued before EndOfQuery has had its rows sent on change_tx.
C6_Witness ==
    /\ step.kind = "handle"
    /\ step.early
    /\ step.emitted # <<>>

\* C7, FIFO application: the task takes commands in the order they were enqueued,
\* each at most once and none skipped: what it takes is the oldest command of the
\* inbox, the inbox is in enqueue order, and it only changes by that command
\* leaving, a new one joining at the end, or the task ending.
C7_FifoStep ==
    /\ lastNo' # lastNo =>
          /\ cmd_rx # <<>>
          /\ lastNo' = cmd_rx[1].no
          /\ lastNo' > lastNo
          /\ cmd_rx' = Tail(cmd_rx)
    /\ \A i \in 1..Len(cmd_rx') :
          /\ cmd_rx'[i].no > lastNo'
          /\ i > 1 => cmd_rx'[i - 1].no < cmd_rx'[i].no
    /\ cmd_rx' # cmd_rx =>
          \/ lastNo' # lastNo
          \/ pc' = "ended" /\ cmd_rx' = <<>>
          \/ cmd_rx' # <<>> /\ cmd_rx' = Append(cmd_rx, cmd_rx'[Len(cmd_rx')])
C7_FifoApplication == [][C7_FifoStep]_vars

\* The first of two enqueued commands is being handled while the second waits.
C7_Witness ==
    /\ pc = "handle"
    /\ cmd_rx # <<>>
    /\ cur.no < cmd_rx[1].no

\* C8, at most one transaction in flight: the matcher's connection never has two
\* transactions open, two change processings or one with the snapshot, however
\* many commands its callers have enqueued.
C8_OneTransaction ==
    /\ openTx <= 1
    /\ txn # NoTxn => pc = "snapshot_rows"
    /\ pc = "handle" => txn = NoTxn

\* A change is being processed in its transaction while another command waits.
C8_Witness ==
    /\ pc = "handle"
    /\ openTx = 1
    /\ cmd_rx # <<>>

\* C9, locality: a handle_change for (t, p) leaves every shadow row whose pk of t
\* is not p as it was, adds no such row, and every row it sends has the rowid of
\* a row whose pk of t is p.
C9_Locality ==
    step.kind = "handle" =>
        /\ \A r \in step.before : ~SqlIs(PkOf(step.table, r), <<step.pk>>) => r \in shadow
        /\ \A r \in shadow : ~SqlIs(PkOf(step.table, r), <<step.pk>>) => r \in step.before
        /\ \A i \in 1..Len(step.emitted) :
              \A r \in step.before \cup shadow :
                  r.rowid = step.emitted[i].rowid => SqlIs(PkOf(step.table, r), <<step.pk>>)

\* A handle_change changed the rows of its key while rows of another key existed.
C9_Witness ==
    /\ step.kind = "handle"
    /\ step.committed
    /\ step.emitted # <<>>
    /\ \E r \in step.before : ~SqlIs(PkOf(step.table, r), <<step.pk>>)

\* One row has come to match the query for the key of the last handle_change,
\* which ran with no failure of the database or of the send and committed:
\* new_query has exactly one row that temp_query had not, and temp_query had no
\* row that new_query has not.
OneRowEntered ==
    /\ step.kind = "handle"
    /\ step.fault = "none"
    /\ step.committed
    /\ Cardinality(new_query(dbA, dbB, step.table, step.pk)
                       \ temp_query(step.before, step.table, step.pk)) = 1
    /\ temp_query(step.before, step.table, step.pk)
           \subseteq new_query(dbA, dbB, step.table, step.pk)
    /\ \A q \in new_query(dbA, dbB, step.table, step.pk)
                    \ temp_query(step.before, step.table, step.pk) :
           \A r \in step.before : ~(SqlIs(r.pk_a, q.pk_a) /\ SqlIs(r.pk_b, q.pk_b))

\* C10, a row enters the result: when one row has come to match the query and the
\* change of its key is processed, the handle_change sends exactly one Row, an
\* Upsert with the cells of the new row and a rowid no shadow row had before, and
\* no Delete.
C10_RowEnters ==
    OneRowEntered =>
        /\ Len(step.emitted) = 1
        /\ step.emitted[1].change_type = "Upsert"
        /\ \E q \in new_query(dbA, dbB, step.table, step.pk) :
              /\ q \notin temp_query(step.before, step.table, step.pk)
              /\ step.emitted[1].cells = q.cells
        /\ \A r \in step.before : r.rowid # step.emitted[1].rowid

\* A row entered the result next to rows the shadow table already had.
C10_Witness ==
    /\ OneRowEntered
    /\ step.before # {}
    /\ step.emitted # <<>>


\* The shadow rows of the key of the last handle_change that had stopped matching
\* the query when it ran: no row of the query has their base-table keys any more.
Leavers ==
    { r \in step.before :
        /\ SqlIs(PkOf(step.table, r), <<step.pk>>)
        /\ \A q \in QueryRows(dbA, dbB) : ~(SqlIs(q.pk_a, r.pk_a) /\ SqlIs(q.pk_b, r.pk_b)) }

\* One materialized row has stopped matching the query, nothing else of the key
\* has changed, and the handle_change of the key ran with no failure and committed.
OneRowLeft ==
    /\ step.kind = "handle"
    /\ step.fault = "none"
    /\ step.committed
    /\ Cardinality(Leavers) = 1
    /\ new_query(dbA, dbB, step.table, step.pk)
           \subseteq temp_query(step.before, step.table, step.pk)

\* C11, a row leaves the result: when a materialized row stops matching the query
\* and the change of the mutated (table, pk) is processed, exactly one Row is sent
\* on change_tx: a Delete with the rowid and the cells the shadow row had; no
\* Upsert is sent.
C11_RowLeaves ==
    OneRowLeft =>
        /\ Len(step.emitted) = 1
        /\ step.emitted[1].change_type = "Delete"
        /\ \E r \in Leavers :
              /\ step.emitted[1].rowid = r.rowid
              /\ step.emitted[1].cells = r.cells


\* Two rows have the same base-table keys.
SameKeys(x, y) == SqlIs(x.pk_a, y.pk_a) /\ SqlIs(x.pk_b, y.pk_b)

\* The shadow rows of the key of the last handle_change whose row of the query had
\* other cells when it ran.
Changed ==
    { r \in step.before :
        /\ SqlIs(PkOf(step.table, r), <<step.pk>>)
        /\ \E q \in QueryRows(dbA, dbB) : SameKeys(q, r) /\ q.cells # r.cells }

\* One materialized row has kept its keys and changed its projection, each row of
\* the key was materialized once, no row of the key has come or gone, and the
\* handle_change of the key ran with no failure and committed.
OneRowUpdated ==
    /\ step.kind = "handle"
    /\ step.fault = "none"
    /\ step.committed
    /\ Cardinality(Changed) = 1
    /\ \A x, y \in step.before : SameKeys(x, y) => x = y
    /\ \A q \in new_query(dbA, dbB, step.table, step.pk) :
           \E r \in step.before : SameKeys(q, r)
    /\ \A r \in step.before :
           SqlIs(PkOf(step.table, r), <<step.pk>>) =>
               \E q \in QueryRows(dbA, dbB) : SameKeys(q, r)

\* C12, projection update: when a materialized row keeps its synthetic pk tuple,
\* still matches the query and its projection changes, processing the change sends
\* exactly one Row, an Upsert with the new cells and the rowid the row had, sends
\* no Delete, and the shadow table keeps exactly one row for that pk tuple.
C12_ProjectionUpdate ==
    OneRowUpdated =>
        \A r \in Changed :
            /\ Len(step.emitted) = 1
            /\ step.emitted[1].change_type = "Upsert"
            /\ step.emitted[1].rowid = r.rowid
            /\ \E q \in QueryRows(dbA, dbB) :
                   SameKeys(q, r) /\ step.emitted[1].cells = q.cells
            /\ Cardinality({ x \in shadow : SameKeys(x, r) }) = 1


\* C13, bounded inbox and soft enqueue failure: the inbox never holds more than
\* 512 commands; process_change for a table of statements returns at once: when
\* the inbox is full or its receiver is gone with the ended task it returns
\* ChangeQueueClosedOrFull and leaves the inbox, the shadow table and the task as
\* they were, otherwise it appends exactly one ProcessChange and returns Ok.
C13_SoftEnqueueStep ==
    /\ Len(cmd_rx') <= 512
    /\ (step'.kind = "call" /\ step'.table \in statements) =>
          IF pc = "ended" \/ Len(cmd_rx) >= 512
          THEN /\ step'.result = "ChangeQueueClosedOrFull"
               /\ UNCHANGED <<cmd_rx, shadow, seq, table, txn, openTx, pc, cur, lastNo,
                              dbA, dbB, receivers, init_log>>
          ELSE /\ step'.result = "Ok"
               /\ Len(cmd_rx') = Len(cmd_rx) + 1
               /\ SubSeq(cmd_rx', 1, Len(cmd_rx)) = cmd_rx
               /\ cmd_rx'[Len(cmd_rx')].type = "ProcessChange"
               /\ cmd_rx'[Len(cmd_rx')].table = step'.table
               /\ cmd_rx'[Len(cmd_rx')].pk = step'.pk
               /\ UNCHANGED <<shadow, seq, table, txn, openTx, pc, cur, lastNo>>
C13_SoftEnqueue == [][C13_SoftEnqueueStep]_vars

\* process_change was refused by a full inbox while the task was running.
C13_Witness ==
    /\ step.kind = "call"
    /\ step.result = "ChangeQueueClosedOrFull"
    /\ Len(cmd_rx) = 512
    /\ pc # "ended"


\* C14, shutdown conditions: once in its loop the task leaves it only when the
\* token is cancelled, when it takes an Unsubscribe while change_tx has no
\* receiver, or when a send on change_tx fails with ChangeReceiverClosed.  An
\* Unsubscribe taken while a receiver exists leaves the task in its loop with the
\* rest of the inbox, and so does a storage error of handle_change.
C14_ShutdownStep ==
    /\ (pc \in {"loop", "handle"} /\ pc' \notin {"loop", "handle"}) =>
          \/ pc = "loop" /\ cancelled /\ pc' = "ended" /\ exit' = "cancelled"
          \/ /\ pc = "loop"
             /\ cmd_rx # <<>>
             /\ cmd_rx[1].type = "Unsubscribe"
             /\ receivers = 0
             /\ pc' = "drop"
          \/ pc = "handle" /\ step'.result = "ChangeReceiverClosed" /\ pc' = "drop"
    /\ (pc = "loop" /\ lastNo' # lastNo /\ cmd_rx[1].type = "Unsubscribe" /\ receivers > 0) =>
          (pc' = "loop" /\ cmd_rx' = Tail(cmd_rx))
    /\ (pc = "handle" /\ pc' # "handle" /\ step'.result # "ChangeReceiverClosed") =>
          pc' = "loop"
C14_ShutdownConditions == [][C14_ShutdownStep]_vars

\* An Unsubscribe was taken while a receiver existed: the task is in its loop and
\* the next command waits to be taken.
C14_Witness ==
    /\ step.kind = "unsubscribe"
    /\ pc = "loop"
    /\ receivers > 0
    /\ cmd_rx # <<>>
    /\ cmd_rx[1].type = "ProcessChange"


\* C15, drop on termination: whenever the task ends after it has entered its
\* loop, by cancellation, by an Unsubscribe with no receiver or by a failed send
\* on change_tx, it ends through the step that runs DROP TABLE on its shadow
\* table, and that step ends the task whether the DROP succeeds or fails.
C15_DropStep ==
    (pc \in {"loop", "handle", "drop"} /\ pc' = "ended") => pc = "drop"
C15_DropOnTermination == [][C15_DropStep]_vars


\* The task is suspended: it awaits a command on an empty inbox, or it awaits room
\* on the init channel, whose receiver is alive and does not read.
Suspended ==
    \/ pc = "loop" /\ cmd_rx = <<>>
    \/ /\ pc \in {"send_columns", "snapshot_err", "send_eoq"}
       /\ init_open
       /\ init_unread >= InitCap

\* C16, cancellation responsiveness: once the token is cancelled, a task suspended
\* on its inbox or on the init channel goes on to its exit by itself, with no
\* further command and no action of the init channel's receiver.
C16_CancellationResponsive ==
    (cancelled /\ pc # "ended" /\ Suspended) => ENABLED TaskStep


\* C17, drop-guard: whenever the spawned task has ended, by leaving its loop, by
\* an early return on a failed send on the init channel, by an early return after
\* a snapshot error or by cancellation, the token is cancelled.
C17_DropGuard == pc = "ended" => cancelled

\* The task has ended by an early return or after its loop, not by cancellation.
C17_Witness ==
    /\ pc = "ended"
    /\ exit \in {"init_closed", "snapshot_error", "unsubscribed", "receiver_closed"}
    /\ cancelled

\* C18, no dangling shadow table after an early exit: when the task has returned
\* early in the snapshot phase (a send of Columns, of a Row or of EndOfQuery failed,
\* or the snapshot transaction failed), its shadow table no longer exists.  The
\* exits named are those of the early returns; the step that runs DROP TABLE ends
\* the task with another exit, so no failed DROP excuses a table found here.
C18_NoDanglingTable ==
    (pc = "ended" /\ exit \in {"init_closed", "snapshot_error"}) => ~table

\* An Error has been sent on the init channel.
ErrorSent == \E i \in 1..Len(init_log) : init_log[i] = ErrorMsg

\* C19, snapshot failure: when a step of the snapshot fails (beginning the
\* transaction, preparing or running the INSERT, reading a returned row,
\* committing), the task sends Error on the init channel and ends: EndOfQuery is
\* never sent, the loop is never entered, so no Row goes out on change_tx, and
\* no row of the snapshot is committed to the shadow table.
C19_SnapshotFailure ==
    /\ (pc = "snapshot_err" \/ exit = "snapshot_error" \/ ErrorSent) =>
          /\ pc \in {"snapshot_err", "ended"}
          /\ ~LoopEntered
          /\ shadow = {}
          /\ seq = 0
          /\ txn = NoTxn
          /\ openTx = 0
          /\ step.kind # "handle"
    /\ ErrorSent => (pc = "ended" /\ exit = "snapshot_error")
    /\ (pc = "ended" /\ exit = "snapshot_error" /\ init_open) =>
          init_log[Len(init_log)] = ErrorMsg

\* The snapshot failed after it had sent a Row, and the Error was sent.
C19_Witness ==
    /\ pc = "ended"
    /\ exit = "snapshot_error"
    /\ ErrorSent
    /\ RowsSent(init_log) >= 1

\* C20, storage errors in steady state: when a storage operation of handle_change
\* fails (beginning the transaction, preparing or binding a probe, iterating the
\* rows of a probe, reading a cell, committing), the shadow table is exactly as it
\* was before that change and the task stays in its loop.
C20_StorageErrors ==
    (step.kind = "handle" /\ step.fault # "none" /\ step.result # "ChangeReceiverClosed") =>
        /\ shadow = step.before
        /\ pc \in {"loop", "handle"}

\* C23, broadcast send failure: when the send of a Row on change_tx fails for want
\* of receivers while a change is processed, handle_change returns
\* ChangeReceiverClosed with the transaction of that change not committed (the
\* shadow table and its sequence are as before the change), the task leaves its
\* loop at once, and from there its only step is the DROP TABLE that ends it: no
\* further command is taken from the inbox and no further Row is emitted.
C23_BroadcastStep ==
    /\ (pc = "handle" /\ pc' # pc /\ step'.result = "ChangeReceiverClosed") =>
          /\ receivers = 0
          /\ ~step'.committed
          /\ shadow' = shadow
          /\ seq' = seq
          /\ openTx' = 0
          /\ pc' = "drop"
          /\ exit' = "receiver_closed"
    /\ (pc = "drop" /\ exit = "receiver_closed") =>
          /\ ~ENABLED RecvCmd
          /\ ~ENABLED HandleChange
          /\ ENABLED DropTable
          /\ pc' # pc => (pc' = "ended" /\ lastNo' = lastNo /\ step' = NoStep)
C23_BroadcastSendFailure == [][C23_BroadcastStep]_vars

\* The loop has been left on ChangeReceiverClosed with a command still queued.
C23_Witness ==
    /\ pc = "drop"
    /\ exit = "receiver_closed"
    /\ cmd_rx # <<>>
    /\ step.kind = "handle"
    /\ step.result = "ChangeReceiverClosed"

\* The Rows sent on the init channel so far, as (rowid, cells), oldest first.
RECURSIVE SentRows(_)
SentRows(log) ==
    IF log = <<>> THEN <<>>
    ELSE IF Head(log).type = "Row"
    THEN <<[rowid |-> Head(log).rowid, cells |-> Head(log).cells]>> \o SentRows(Tail(log))
    ELSE SentRows(Tail(log))

\* The (rowid, cells) of the rows of a shadow table, by rowid.
Returned(sh) ==
    [i \in 1..Cardinality(sh) |->
        [rowid |-> ByRowid(sh)[i].rowid, cells |-> ByRowid(sh)[i].cells]]

\* C25, snapshot completeness: the INSERT of the snapshot transaction puts one row
\* into the shadow table per row of the rewritten SELECT's result as the
\* transaction reads it, with that row's synthetic keys and projection and with
\* rowids that differ pairwise; the Rows sent on the init channel are Upserts of
\* exactly those rows, one each, with their rowids and cells; and at the step
\* that sends EndOfQuery the committed shadow table holds exactly the rows sent.
C25_SnapshotStep ==
    /\ (pc = "snapshot" /\ pc' = "snapshot_rows") =>
          /\ { Strip(r) : r \in txn'.shadow } = QueryRows(dbA, dbB)
          /\ Cardinality(txn'.shadow) = Cardinality(QueryRows(dbA, dbB))
          /\ \A r1, r2 \in txn'.shadow : r1.rowid = r2.rowid => r1 = r2
          /\ txn'.pending = Returned(txn'.shadow)
          /\ SentRows(init_log') = <<>>
    /\ (pc = "snapshot_rows" /\ pc' \in {"snapshot_rows", "send_eoq"}) =>
          /\ SentRows(init_log) \o txn.pending = Returned(txn.shadow)
          /\ pc' = "snapshot_rows" => SentRows(init_log') \o txn'.pending = Returned(txn.shadow)
          /\ pc' = "send_eoq" => (txn.pending = <<>> /\ shadow' = txn.shadow)
    /\ (pc = "send_eoq" /\ pc' = "loop") =>
          /\ init_log' = Append(init_log, EndOfQuery)
          /\ SentRows(init_log') = Returned(shadow')
          /\ \A i \in 1..Len(init_log) :
                 init_log[i].type = "Row" => init_log[i].change_type = "Upsert"
C25_SnapshotCompleteness == [][C25_SnapshotStep]_vars

\* EndOfQuery has been sent after two Rows, and the shadow table holds both.
C25_Witness ==
    /\ pc = "loop"
    /\ LoopEntered
    /\ Len(SentRows(init_log)) = 2
    /\ SentRows(init_log) = Returned(shadow)

\* The parse and analysis errors of MatcherError.
ParseErrors ==
    {"Lexer", "StatementRequired", "UnsupportedStatement", "TableRequired", "TableNotFound",
     "TableStarNotFound", "NoPrimaryKey", "AggPrimaryKeyMissing", "UnsupportedExpr",
     "MissingPrimaryKeys"}

\* C21, construction failure is clean: when Matcher::new has returned a parse or
\* analysis error, that error is what the caller has, no task was spawned (the
\* task is at none of its steps), nothing was sent on the init channel, nothing
\* was enqueued or emitted, and the shadow table and its index do not exist.
C21_CleanFailure ==
    (returned.kind = "Err" /\ returned.what \in ParseErrors) =>
        /\ ctor.at = "returned"
        /\ pc = "ctor_err"
        /\ exit = returned.what
        /\ ~table
        /\ init_log = <<>>
        /\ init_unread = 0
        /\ cmd_rx = <<>>
        /\ step = NoStep
        /\ ~ENABLED TaskStep

\* NoPrimaryKey came from the loop over the tables after it had built the
\* statement of an earlier table.
C21_Witness ==
    /\ returned = Err("NoPrimaryKey", "n")
    /\ ctor.statements # {}
    /\ ctor.pks # <<>>

\* C22, primary-key binding order: when process_change has enqueued a
\* ProcessChange for an aggregate change on table T, the i-th value of the
\* command is the value agg.pk gives to T's i-th declared primary-key column,
\* which is the column the i-th `IS ?` of new_query and of temp_query compares,
\* whatever the order of the entries of agg.pk.
C22_PkBindingOrder ==
    (step.kind = "agg" /\ step.enqueued) =>
        LET t == step.agg.table
            cmd == cmd_rx[Len(cmd_rx)]
            stmt == CHOOSE x \in ctor.statements : x.table = t
        IN  /\ Len(cmd.pk) = Len(schema[t].pk)
            /\ \A i \in 1..Len(schema[t].pk) :
                   /\ stmt.new_query.filter[i].pk = schema[t].pk[i]
                   /\ stmt.temp_query.filter[i].pk = schema[t].pk[i]
                   /\ \E j \in 1..Len(step.agg.pk) :
                          /\ step.agg.pk[j].col = schema[t].pk[i]
                          /\ cmd.pk[i] = step.agg.pk[j].val

\* The base tables a SELECT names in FROM and in its JOINs, and those of them
\* the schema does not have.
NamedTables(select) ==
    (IF select.from.kind = "Table" THEN {select.from.name} ELSE {}) \cup
    { select.joins[i].table.name :
        i \in { j \in 1..Len(select.joins) : select.joins[j].table.kind = "Table" } }
UnknownTables(select) == NamedTables(select) \ DOMAIN schema

\* Matcher::new has got past conn.prepare and is over.
Constructed ==
    /\ sql.cmd = "Select"
    /\ sql.select.body = "Select"
    /\ ctor.at = "returned"
    /\ returned # Err("Sqlite", "prepare")

\* The WHERE clause and the result columns have nothing the analysis may object
\* to on their own account.
PlainSelect(select) ==
    /\ select.where_clause.op \in {"none", "Qualified", "Literal"}
    /\ \A i \in 1..Len(select.columns) : select.columns[i].kind = "Expr"

\* C26, unknown tables are rejected: when Matcher::new is over for a SELECT that
\* names, in FROM or in a JOIN, a base table the schema does not have, it has
\* returned Err(TableNotFound(t)) for such a table t: no panic, no matcher.
C26_UnknownTablesRejected ==
    (Constructed /\ PlainSelect(sql.select) /\ UnknownTables(sql.select) # {}) =>
        /\ returned.kind = "Err"
        /\ returned.what = "TableNotFound"
        /\ returned.arg \in UnknownTables(sql.select)
        /\ pc = "ctor_err"

\* Whether the expression e holds an InTable or a bare Name, at any depth of its
\* operands.
RECURSIVE Unsupported(_)
Unsupported(e) ==
    \/ e.op \in {"InTable", "Name"}
    \/ /\ e.op \in {"Binary", "Between", "IsNull", "InSelect"}
       /\ \E i \in 1..Len(e.args) : Unsupported(e.args[i])

\* Whether the projection, the WHERE clause or an ON constraint of the SELECT
\* holds an unsupported expression.
HasUnsupported(select) ==
    \/ \E i \in 1..Len(select.columns) :
          select.columns[i].kind = "Expr" /\ Unsupported(select.columns[i].expr)
    \/ Unsupported(select.where_clause)
    \/ \E i \in 1..Len(select.joins) :
          select.joins[i].constraint.kind = "On" /\ Unsupported(select.joins[i].constraint.expr)

\* C27, unsupported expressions are rejected with an error value: once the
\* analysis of a SELECT over a table of the schema has run, and the SELECT holds
\* an InTable or a bare Name in its projection, WHERE clause or an ON constraint,
\* Matcher::new has returned Err(UnsupportedExpr): it neither panicked nor went on.
C27_UnsupportedExprRejected ==
    (/\ sql.cmd = "Select"
     /\ sql.select.body = "Select"
     /\ sql.select.from.kind = "Table"
     /\ sql.select.from.name \in DOMAIN schema
     /\ HasUnsupported(sql.select)
     /\ ctor.at \notin {"prepare", "analyze"}
     /\ returned # Err("Sqlite", "prepare")) =>
        /\ returned.kind = "Err"
        /\ returned.what = "UnsupportedExpr"

\* The table a `q.*` of the SELECT stands for: the name of the source of FROM or
\* of a JOIN that goes by q.
SourceNamed(select, q) ==
    IF select.from.kind = "Table" /\ Qual(select.from) = q THEN select.from.name
    ELSE select.joins[CHOOSE i \in 1..Len(select.joins) : Qual(select.joins[i].table) = q]
             .table.name

\* The output columns of result column c after expansion.
Expansion(select, c) ==
    IF c.kind = "Expr" THEN <<c.expr>>
    ELSE IF c.kind = "Star"
    THEN [k \in 1..Len(schema[select.from.name].columns) |->
             Name(schema[select.from.name].columns[k])]
    ELSE [k \in 1..Len(schema[SourceNamed(select, c.tbl)].columns) |->
             Qualified(c.tbl, schema[SourceNamed(select, c.tbl)].columns[k])]

\* The output columns of the SELECT after expansion, in order.
RECURSIVE Expanded(_, _)
Expanded(select, columns) ==
    IF columns = <<>> THEN <<>>
    ELSE Expansion(select, Head(columns)) \o Expanded(select, Tail(columns))

\* The i-th entry (from 1) of a projection list is aliased col_{i-1}.
Numbered(cols) == \A i \in 1..Len(cols) : cols[i].as = i - 1

C29_StatementMapShape ==
    LET names == { ctor.parsed.table_columns[k].name : k \in 1..Len(ctor.parsed.table_columns) }
    IN  /\ returned = Ok =>
               /\ { s.table : s \in ctor.statements } = names
               /\ Cardinality(ctor.statements) = Len(ctor.parsed.table_columns)
               /\ \A t \in names :
                      \E k \in 1..Len(ctor.pks) : ctor.pks[k].table = t /\ ctor.pks[k].cols # <<>>
        /\ (/\ ctor.at = "returned"
            /\ \E t \in names : t \in DOMAIN schema /\ schema[t].pk = <<>>) =>
               /\ returned.kind = "Err"
               /\ returned.what = "NoPrimaryKey"

\* The last step was a handle_change that ran with no failure of the database or
\* of the send and committed; the base tables are as it read them.
HandledCleanly ==
    /\ step.kind = "handle"
    /\ step.fault = "none"
    /\ step.result = "Ok"
    /\ step.committed

\* The shadow rows whose synthetic pk column of table t is p.
ShadowOfKey(sh, t, p) == { x \in sh : SqlIs(PkOf(t, x), <<p>>) }

\* C31, per-key probe correctness: right after a change for table T with primary
\* key p has been processed without error, the shadow rows whose T-pk columns
\* equal p (synthetic pk tuple and cells) are the rows the rewritten SELECT
\* restricted to T.pk = p returns on the base tables, one shadow row for each,
\* also when the synthetic pk column of the other, LEFT-JOINed table is NULL.
C31_PerKeyProbe ==
    HandledCleanly =>
        /\ { Strip(x) : x \in ShadowOfKey(shadow, step.table, step.pk) }
               = new_query(dbA, dbB, step.table, step.pk)
        /\ Cardinality(ShadowOfKey(shadow, step.table, step.pk))
               = Cardinality(new_query(dbA, dbB, step.table, step.pk))

\* The rowids of a set of shadow rows, and those of the rows a handle_change sent.
Rowids(sh) == { x.rowid : x \in sh }
SentRowids(emitted) == { emitted[i].rowid : i \in 1..Len(emitted) }

C33_RowidStep ==
    /\ seq' >= seq
    /\ \A r \in shadow' : r.rowid \notin Rowids(shadow) => r.rowid > seq
    /\ \A r \in shadow' : r.rowid <= seq'
    /\ (pc = "handle" /\ pc' # "handle") =>
          \A i \in 1..Len(step'.emitted) :
              (/\ step'.emitted[i].change_type = "Upsert"
               /\ step'.emitted[i].rowid \notin Rowids(shadow)) =>
                  /\ step'.emitted[i].rowid > seq
                  /\ step.kind = "handle" =>
                         \A old \in SentRowids(step.emitted) : step'.emitted[i].rowid > old

\* C33, rowids are never reused: the sequence of the shadow table never goes
\* back, every row that enters the shadow table gets a rowid above every rowid
\* the table has given out, and a row a handle_change inserts is sent with a
\* rowid above every rowid the handle_change before it sent, so no rowid that
\* went out comes again for a newly inserted row.
C33_RowidsNeverReused == [][C33_RowidStep]_vars

C35_DropStep ==
    (pc = "drop" /\ exit = "unsubscribed" /\ pc' = "ended") => receivers' = 0

\* C35, no subscriber on a dead matcher through the Unsubscribe path: when the
\* task ends after it took an Unsubscribe with no receiver, then whatever
\* subscribe() calls ran beside it, change_tx has no receiver at the moment the
\* shadow table is dropped and the task ends.
C35_NoSubscriberOnDeadMatcher == [][C35_DropStep]_vars

\* The aggregates that differ from agg at most in evt_type and in what version
\* stands for: same table, same pk.
SameKey(agg) == { o \in AggregateChanges : o.table = agg.table /\ o.pk = agg.pk }

\* What process_change returns for agg in this state of the matcher.
ProcessChangeResult(agg) ==
    IF StatementsGet(ctor.statements, agg.table) = {} THEN "Ok"
    ELSE IF ChannelClosedOrFull THEN "ChangeQueueClosedOrFull"
    ELSE "Ok"

\* C34, event kind and data do not matter: after process_change(agg), every
\* aggregate with the same table and the same pk but another evt_type or other
\* data, actor_id or version would have put the same command into the inbox,
\* and the command holds the table and the pk values only, so what
\* handle_change does with it cannot depend on anything else of the aggregate.
C34_EventKindIrrelevant ==
    step.kind = "agg" =>
        \A other \in SameKey(step.agg) :
            IF step.enqueued
            THEN LET cmd == cmd_rx[Len(cmd_rx)]
                 IN  /\ cmd = MatcherCmdProcessChange(other, cmd.no, cmd.early)
                     /\ DOMAIN cmd = {"type", "table", "pk", "no", "early"}
                     /\ cmd.table = other.table
                     /\ cmd.pk = PkValues(other)
            ELSE step.result = ProcessChangeResult(other)

\* process_change has enqueued the command of a Delete aggregate.
C34_Witness ==
    /\ step.kind = "agg"
    /\ step.enqueued
    /\ step.agg.evt_type = "Delete"
    /\ Cardinality(SameKey(step.agg)) > 1
    /\ Len(cmd_rx[Len(cmd_rx)].pk) > 0


Next ==
    \/ MatcherNew /\ UNCHANGED <<cvars, ovars, wvars>>
    \/ SendColumns /\ UNCHANGED <<cvars, ovars, wvars>>
    \/ SnapshotBegin /\ UNCHANGED <<cvars, ovars, wvars>>
    \/ SnapshotSendRow /\ UNCHANGED <<cvars, ovars, wvars>>
    \/ SnapshotCommit /\ UNCHANGED <<cvars, ovars, wvars>>
    \/ SendError /\ UNCHANGED <<cvars, ovars, wvars>>
    \/ SendEndOfQuery /\ UNCHANGED <<cvars, ovars, wvars>>
    \/ RecvCmd /\ UNCHANGED <<cvars, ovars, wvars>>
    \/ CancelledExit /\ UNCHANGED <<cvars, ovars, wvars>>
    \/ HandleChange /\ UNCHANGED <<cvars, ovars, wvars>>
    \/ DropTable /\ UNCHANGED <<cvars, ovars, wvars>>
    \/ ProcessChange /\ UNCHANGED <<cvars, ovars, wvars>>
    \/ Unsubscribe /\ UNCHANGED <<cvars, ovars, wvars>>
    \/ Subscribe /\ UNCHANGED <<cvars, ovars, wvars>>
    \/ DropReceiver /\ UNCHANGED <<cvars, ovars, wvars>>
    \/ Cancel /\ UNCHANGED <<cvars, ovars, wvars>>
    \/ InitRecv /\ UNCHANGED <<cvars, ovars, wvars>>
    \/ InitClose /\ UNCHANGED <<cvars, ovars, wvars>>
    \/ MutateA /\ UNCHANGED <<cvars, ovars, wvars>>
    \/ MutateB /\ UNCHANGED <<cvars, ovars, wvars>>

Spec == Init /\ [][Next]_vars

\* ------------------------------------------------ the matcher, scheduled fairly
\* A spawned task on a database that holds one row of A. The runtime keeps
\* polling the task, and the reader of the init channel keeps reading it as long
\* as it holds the receiver.
InitLive ==
    /\ pc = "send_columns"
    /\ dbA = [a \in AIds |-> IF a = 1 THEN <<1>> ELSE NoRow]
    /\ dbB = [b \in BIds |-> NoRow]
    /\ table = TRUE
    /\ shadow = {}
    /\ seq = 0
    /\ txn = NoTxn
    /\ openTx = 0
    /\ cmd_rx = <<>>
    /\ cur = NoCmd
    /\ nextNo = 1
    /\ lastNo = 0
    /\ receivers = 1
    /\ cancelled = FALSE
    /\ exit = ""
    /\ init_open = TRUE
    /\ init_unread = 0
    /\ init_log = <<>>
    /\ dirty = {}
    /\ nMut = MaxMut
    /\ step = NoStep
    /\ sql = NoSql
    /\ ctor = NoCtor
    /\ returned = NotReturned
    /\ NoOthers

\* The task, the holders of the handle and of the cancellation token, and the
\* reader of the init channel; the base tables do not change.
NextLive ==
    \/ SendColumns /\ UNCHANGED <<cvars, ovars, wvars>>
    \/ SnapshotBegin /\ UNCHANGED <<cvars, ovars, wvars>>
    \/ SnapshotSendRow /\ UNCHANGED <<cvars, ovars, wvars>>
    \/ SnapshotCommit /\ UNCHANGED <<cvars, ovars, wvars>>
    \/ SendError /\ UNCHANGED <<cvars, ovars, wvars>>
    \/ SendEndOfQuery /\ UNCHANGED <<cvars, ovars, wvars>>
    \/ RecvCmd /\ UNCHANGED <<cvars, ovars, wvars>>
    \/ CancelledExit /\ UNCHANGED <<cvars, ovars, wvars>>
    \/ HandleChange /\ UNCHANGED <<cvars, ovars, wvars>>
    \/ DropTable /\ UNCHANGED <<cvars, ovars, wvars>>
    \/ ProcessChange /\ UNCHANGED <<cvars, ovars, wvars>>
    \/ Unsubscribe /\ UNCHANGED <<cvars, ovars, wvars>>
    \/ Subscribe /\ UNCHANGED <<cvars, ovars, wvars>>
    \/ DropReceiver /\ UNCHANGED <<cvars, ovars, wvars>>
    \/ Cancel /\ UNCHANGED <<cvars, ovars, wvars>>
    \/ InitRecv /\ UNCHANGED <<cvars, ovars, wvars>>
    \/ InitClose /\ UNCHANGED <<cvars, ovars, wvars>>

SpecLive ==
    /\ InitLive
    /\ [][NextLive]_vars
    /\ WF_vars(TaskStep /\ UNCHANGED <<cvars, ovars, wvars>>)
    /\ WF_vars(InitRecv /\ UNCHANGED <<cvars, ovars, wvars>>)

\* change_tx has no receiver and an Unsubscribe is in the inbox.
UnsubscribePending ==
    /\ receivers = 0
    /\ \E i \in 1..Len(cmd_rx) : cmd_rx[i].type = "Unsubscribe"

\* The task has left its loop, has run DROP TABLE and has ended.
TornDown == pc = "ended" /\ exit \in {"unsubscribed", "receiver_closed"}

\* C32, teardown liveness on unsubscribe: when the last receiver of change_tx is
\* gone and an Unsubscribe is in the inbox, then, the task being scheduled and
\* the init channel being read, the matcher eventually ends through DROP TABLE,
\* whatever ProcessChange commands are ahead of the Unsubscribe, unless a new
\* receiver subscribes or the reader of the init channel goes away.
C32_TeardownLiveness ==
    UnsubscribePending ~> (TornDown \/ receivers > 0 \/ ~init_open)

\* ------------------------------------------------- a matcher with a full inbox
\* The task has been spawned on an empty database and, before it has sent Columns,
\* the holders of cmd_tx() have filled the inbox with Unsubscribe commands.
InitFullInbox ==
    /\ pc = "send_columns"
    /\ dbA = [a \in AIds |-> NoRow]
    /\ dbB = [b \in BIds |-> NoRow]
    /\ table = TRUE
    /\ shadow = {}
    /\ seq = 0
    /\ txn = NoTxn
    /\ openTx = 0
    /\ cmd_rx = [i \in 1..CmdCap |->
                    [type |-> "Unsubscribe", table |-> "", pk |-> 0, no |-> i - CmdCap,
                     early |-> TRUE]]
    /\ cur = NoCmd
    /\ nextNo = 1
    /\ lastNo = 0 - CmdCap
    /\ receivers = 1
    /\ cancelled = FALSE
    /\ exit = ""
    /\ init_open = TRUE
    /\ init_unread = 0
    /\ init_log = <<>>
    /\ dirty = {}
    /\ nMut = MaxMut
    /\ step = NoStep
    /\ sql = NoSql
    /\ ctor = NoCtor
    /\ returned = NotReturned
    /\ NoOthers

\* The task and the callers of process_change, with no change of the base tables
\* and the receivers of both channels staying.
NextFullInbox ==
    \/ SendColumns /\ UNCHANGED <<cvars, ovars, wvars>>
    \/ SnapshotBegin /\ UNCHANGED <<cvars, ovars, wvars>>
    \/ SnapshotCommit /\ UNCHANGED <<cvars, ovars, wvars>>
    \/ SendError /\ UNCHANGED <<cvars, ovars, wvars>>
    \/ SendEndOfQuery /\ UNCHANGED <<cvars, ovars, wvars>>
    \/ RecvCmd /\ UNCHANGED <<cvars, ovars, wvars>>
    \/ CancelledExit /\ UNCHANGED <<cvars, ovars, wvars>>
    \/ HandleChange /\ UNCHANGED <<cvars, ovars, wvars>>
    \/ ProcessChange /\ UNCHANGED <<cvars, ovars, wvars>>
    \/ Cancel /\ UNCHANGED <<cvars, ovars, wvars>>
    \/ InitRecv /\ UNCHANGED <<cvars, ovars, wvars>>

SpecFullInbox == InitFullInbox /\ [][NextFullInbox]_vars


\* ------------------------------------------- Matcher::new on every statement
\* Matcher::new is called with one of the statements, on a fresh attachment, with
\* the init channel's receiver waiting.
InitNew ==
    /\ pc = "new"
    /\ dbA = [a \in AIds |-> NoRow]
    /\ dbB = [b \in BIds |-> NoRow]
    /\ table = FALSE
    /\ shadow = {}
    /\ seq = 0
    /\ txn = NoTxn
    /\ openTx = 0
    /\ cmd_rx = <<>>
    /\ cur = NoCmd
    /\ nextNo = 1
    /\ lastNo = 0
    /\ receivers = 1
    /\ cancelled = FALSE
    /\ exit = ""
    /\ init_open = TRUE
    /\ init_unread = 0
    /\ init_log = <<>>
    /\ dirty = {}
    /\ nMut = 0
    /\ step = NoStep
    /\ sql \in SqlInputs
    /\ ctor = [NoCtor EXCEPT !.at = "prepare"]
    /\ returned = NotReturned
    /\ NoOthers

\* The steps of Matcher::new, the first step of the task it spawns, and the calls
\* of process_change on the matcher it returned.
NextNew ==
    \/ Prepare
    \/ Analyze
    \/ Rewrite
    \/ Statement
    \/ CreateTable
    \/ Spawn
    \/ SendColumns /\ UNCHANGED <<cvars, ovars, wvars>>
    \/ ProcessChangeAgg

SpecNew == InitNew /\ [][NextNew]_vars


\* ---------------------------------------------------------- the Subscriber
\* The variables of the matcher and of Matcher::new, which no call on a
\* Subscriber touches.
mvars == <<pc, dbA, dbB, table, shadow, seq, txn, openTx, cmd_rx, cur, nextNo, lastNo,
           receivers, cancelled, exit, init_open, init_unread, init_log, dirty, nMut,
           step, cvars>>

\* A remove that looks the id up and leaves it in the map.
HashMapRemoveKeeps(map, id) == map

\* HashMap::insert, HashMap::remove and what remove returns.
HashMapInsert(map, id, info) ==
    [x \in DOMAIN map \cup {id} |-> IF x = id THEN info ELSE map[x]]
HashMapRemove(map, id) == [x \in DOMAIN map \ {id} |-> map[x]]
HashMapRemoved(map, id) == IF id \in DOMAIN map THEN Some(map[id]) ELSE None

\* `match self { Local {subscriptions, ..} => subscriptions, Global {subscriptions}
\* => subscriptions }`: the call acts on the subscriptions of either variant.
OnSubscriptions(self, map) == [self EXCEPT !.subscriptions = map]

\* Subscriber::insert(&mut self, id, info)
insert ==
    \E id \in SubscriptionIds, info \in SubscriptionInfos :
        /\ subscriber' = OnSubscriptions(subscriber,
                              HashMapInsert(subscriber.subscriptions, id, info))
        /\ sub_ret' = [op |-> "insert", id |-> id, info |-> info]
        /\ sub_last' = [sub_last EXCEPT ![id] = info]
        /\ UNCHANGED <<mvars, wvars>>

\* Subscriber::remove(&mut self, id) -> Option<SubscriptionInfo>
remove ==
    \E id \in SubscriptionIds :
        /\ subscriber' = OnSubscriptions(subscriber,
                              HashMapRemove(subscriber.subscriptions, id))
        /\ sub_ret' = [op |-> "remove", id |-> id,
                       ret |-> HashMapRemoved(subscriber.subscriptions, id)]
        /\ sub_last' = [sub_last EXCEPT ![id] = NoInfo]
        /\ UNCHANGED <<mvars, wvars>>

\* Subscriber::as_local(&self) -> Option<(&HashMap, &UnboundedSender)>
as_local ==
    /\ sub_ret' = [op |-> "as_local",
                   ret |-> IF subscriber.variant = "Local"
                           THEN Some(<<subscriber.subscriptions, subscriber.sender>>)
                           ELSE None]
    /\ UNCHANGED <<subscriber, sub_last>>
    /\ UNCHANGED <<mvars, wvars>>

\* A Subscriber of either variant as its owner builds it, with no subscription.
InitSubscriber ==
    /\ pc = "new"
    /\ dbA = [a \in AIds |-> NoRow]
    /\ dbB = [b \in BIds |-> NoRow]
    /\ table = FALSE
    /\ shadow = {}
    /\ seq = 0
    /\ txn = NoTxn
    /\ openTx = 0
    /\ cmd_rx = <<>>
    /\ cur = NoCmd
    /\ nextNo = 1
    /\ lastNo = 0
    /\ receivers = 1
    /\ cancelled = FALSE
    /\ exit = ""
    /\ init_open = TRUE
    /\ init_unread = 0
    /\ init_log = <<>>
    /\ dirty = {}
    /\ nMut = 0
    /\ step = NoStep
    /\ sql = NoSql
    /\ ctor = NoCtor
    /\ returned = NotReturned
    /\ subscriber \in { Local(<<>>, tx) : tx \in Senders } \cup { Global(<<>>) }
    /\ sub_ret = NoRet
    /\ sub_last = [id \in SubscriptionIds |-> NoInfo]
    /\ NoWatches

NextSubscriber ==
    \/ insert
    \/ remove
    \/ as_local

SpecSubscriber == InitSubscriber /\ [][NextSubscriber]_vars

\* What a call on the Subscriber leaves alone: the variant and the sender.
KeepsVariant ==
    /\ subscriber'.variant = subscriber.variant
    /\ subscriber'.sender = subscriber.sender

C30_Call ==
    /\ sub_ret'.op = "insert" =>
          /\ DOMAIN subscriber'.subscriptions = DOMAIN subscriber.subscriptions \cup {sub_ret'.id}
          /\ subscriber'.subscriptions[sub_ret'.id] = sub_ret'.info
          /\ \A x \in DOMAIN subscriber.subscriptions \ {sub_ret'.id} :
                 subscriber'.subscriptions[x] = subscriber.subscriptions[x]
          /\ KeepsVariant
    /\ sub_ret'.op = "remove" =>
          /\ sub_ret'.ret = IF sub_last[sub_ret'.id] # NoInfo
                            THEN Some(sub_last[sub_ret'.id]) ELSE None
          /\ DOMAIN subscriber'.subscriptions = DOMAIN subscriber.subscriptions \ {sub_ret'.id}
          /\ \A x \in DOMAIN subscriber'.subscriptions :
                 subscriber'.subscriptions[x] = subscriber.subscriptions[x]
          /\ sub_ret'.ret = None => subscriber' = subscriber
          /\ KeepsVariant
    /\ sub_ret'.op = "as_local" =>
          /\ subscriber' = subscriber
          /\ sub_ret'.ret = IF subscriber.variant = "Local"
                            THEN Some(<<subscriber.subscriptions, subscriber.sender>>)
                            ELSE None

\* C30, Subscriber index operations: for Local and for Global, insert(id, info)
\* makes id map to info and changes no other subscription; remove(id) returns
\* Some(the info last inserted under id) and leaves id absent, or returns None and
\* changes nothing when id is absent; neither changes the variant or the sender;
\* as_local returns the subscriptions and the sender of a Local, None of a Global.
C30_SubscriberIndex == [][C30_Call]_vars

\* A Local subscriber with two subscriptions has had id 1 removed and its info
\* returned, while id 2 stays.
C30_Witness ==
    /\ subscriber.variant = "Local"
    /\ sub_ret = [op |-> "remove", id |-> 1, ret |-> Some(2)]
    /\ DOMAIN subscriber.subscriptions = {2}

\* ------------------------------------- matchers on one watches attachment
\* Each matcher has a connection of its own to the same main database with the
\* same file attached as watches; the engine runs their write transactions one
\* at a time, so a transaction or a statement in autocommit is one step.
WStep(m, op, t, rows, committed) ==
    [by |-> m, op |-> op, from |-> t, rows |-> rows, committed |-> committed]

\* Matcher::new(id, ...) as far as the database goes: CREATE TABLE
\* {qualified_table_name} and CREATE UNIQUE INDEX watches.index_{id}_pk ON
\* {query_table} in one execute_batch, which stops at the first statement that
\* fails; CREATE TABLE fails when the table exists.
WNew(m) ==
    /\ matcher[m].at = "none"
    /\ \E id \in Ids :
          LET t == qualified_table_name(id)
              created == [tables EXCEPT ![t] = Table({})]
          IN  /\ \/ /\ ~tables[t].exists
                    /\ created[Unqualified(query_table(id))].exists
                    /\ tables' = created
                    /\ matcher' = [matcher EXCEPT ![m] = [id |-> id, at |-> "snapshot"]]
                 \/ /\ tables' \in {tables} \cup (IF tables[t].exists THEN {} ELSE {created})
                    /\ matcher' = [matcher EXCEPT ![m] = [id |-> id, at |-> "failed"]]
              /\ wstep' = WStep(m, "new", t, {}, tables' # tables)
    /\ UNCHANGED <<mvars, ovars>>

\* The snapshot: INSERT INTO {qualified_table_name} ... {query} RETURNING ... in a
\* transaction, each returned row sent on init_tx; on an error the transaction
\* rolls back and the task returns with its table left in place.
WSnapshot(m) ==
    /\ matcher[m].at = "snapshot"
    /\ LET t == qualified_table_name(matcher[m].id)
       IN  \/ /\ tables[t].exists
              /\ tables' = [tables EXCEPT ![t] = Table(tables[BaseTable].rows)]
              /\ wstep' = WStep(m, "snapshot", t, tables[BaseTable].rows, TRUE)
              /\ matcher' = [matcher EXCEPT ![m].at = "loop"]
           \/ /\ \E sent \in SUBSET tables[BaseTable].rows :
                    wstep' = WStep(m, "snapshot", t, sent, FALSE)
              /\ matcher' = [matcher EXCEPT ![m].at = "ended"]
              /\ UNCHANGED tables
    /\ UNCHANGED <<mvars, ovars>>

\* handle_change for one primary key: INSERT INTO {qualified_table_name} ...
\* (new_query EXCEPT temp_query) ... RETURNING and DELETE FROM
\* {qualified_table_name} WHERE ... IN (temp_query EXCEPT new_query) RETURNING in
\* one transaction, temp_query reading FROM {query_table}; the returned rows
\* are sent on change_tx; an error rolls the transaction back.
WHandleChange(m) ==
    /\ matcher[m].at = "loop"
    /\ \E pk \in Rows :
          LET t == qualified_table_name(matcher[m].id)
              temp == tables[Unqualified(query_table(matcher[m].id))]
              new == pk \in tables[BaseTable].rows
              upserted == IF new /\ pk \notin temp.rows THEN {pk} ELSE {}
              deleted == IF ~new /\ pk \in temp.rows THEN {pk} \cap tables[t].rows ELSE {}
          IN  \/ /\ tables[t].exists
                 /\ temp.exists
                 /\ tables' = [tables EXCEPT ![t] = Table((@.rows \cup upserted) \ deleted)]
                 /\ wstep' = WStep(m, "change", t, upserted \cup deleted, TRUE)
              \/ /\ \E sent \in SUBSET (upserted \cup deleted) :
                       wstep' = WStep(m, "change", t, sent, FALSE)
                 /\ UNCHANGED tables
    /\ UNCHANGED matcher
    /\ UNCHANGED <<mvars, ovars>>

\* `break` out of the loop: ChangeReceiverClosed, or Unsubscribe with no receiver.
WBreak(m) ==
    /\ matcher[m].at = "loop"
    /\ matcher' = [matcher EXCEPT ![m].at = "drop"]
    /\ wstep' = WStep(m, "break", qualified_table_name(matcher[m].id), {}, FALSE)
    /\ UNCHANGED tables
    /\ UNCHANGED <<mvars, ovars>>

\* `return` out of the loop: the token is cancelled or the inbox is closed.
WReturn(m) ==
    /\ matcher[m].at = "loop"
    /\ matcher' = [matcher EXCEPT ![m].at = "ended"]
    /\ wstep' = WStep(m, "return", qualified_table_name(matcher[m].id), {}, FALSE)
    /\ UNCHANGED tables
    /\ UNCHANGED <<mvars, ovars>>

\* conn.execute_batch("DROP TABLE {qualified_table_name}"), which may fail with
\* a warning; the task is over either way.
WDropTable(m) ==
    /\ matcher[m].at = "drop"
    /\ LET t == qualified_table_name(matcher[m].id)
       IN  /\ tables' \in {tables, [tables EXCEPT ![t] = NoTable]}
           /\ wstep' = WStep(m, "drop", t, {}, tables' # tables)
    /\ matcher' = [matcher EXCEPT ![m].at = "ended"]
    /\ UNCHANGED <<mvars, ovars>>

\* Another writer inserts or deletes a row of the base table.
WriteBase ==
    /\ \E r \in Rows :
          tables' = [tables EXCEPT ![BaseTable] =
                        Table(IF r \in @.rows THEN @.rows \ {r} ELSE @.rows \cup {r})]
    /\ wstep' = WStep(0, "write", BaseTable, {}, TRUE)
    /\ UNCHANGED matcher
    /\ UNCHANGED <<mvars, ovars>>

InitWatches ==
    /\ pc = "new"
    /\ dbA = [a \in AIds |-> NoRow]
    /\ dbB = [b \in BIds |-> NoRow]
    /\ table = FALSE
    /\ shadow = {}
    /\ seq = 0
    /\ txn = NoTxn
    /\ openTx = 0
    /\ cmd_rx = <<>>
    /\ cur = NoCmd
    /\ nextNo = 1
    /\ lastNo = 0
    /\ receivers = 1
    /\ cancelled = FALSE
    /\ exit = ""
    /\ init_open = TRUE
    /\ init_unread = 0
    /\ init_log = <<>>
    /\ dirty = {}
    /\ nMut = 0
    /\ step = NoStep
    /\ sql = NoSql
    /\ ctor = NoCtor
    /\ returned = NotReturned
    /\ NoSubscriber
    /\ NoWatches

NextWatches ==
    \/ \E m \in Matchers : WNew(m)
    \/ \E m \in Matchers : WSnapshot(m)
    \/ \E m \in Matchers : WHandleChange(m)
    \/ \E m \in Matchers : WBreak(m)
    \/ \E m \in Matchers : WReturn(m)
    \/ \E m \in Matchers : WDropTable(m)
    \/ WriteBase

SpecWatches == InitWatches /\ [][NextWatches]_vars

\* watches.query_{hex(id)}, the shadow table of the matcher with that id.
ShadowOf(id) == <<"watches", <<"query_", id>>>>
TaskAlive(m) == matcher[m].at \in {"snapshot", "loop", "drop"}

C24_MatcherStep ==
    \A m \in Matchers :
        wstep'.by = m =>
            /\ \A t \in DbTables \ {ShadowOf(matcher'[m].id)} : tables'[t] = tables[t]
            /\ tables'[BaseTable] = tables[BaseTable]
            /\ \A o \in Matchers \ {m} :
                   /\ matcher'[o] = matcher[o]
                   /\ TaskAlive(o) =>
                          tables'[ShadowOf(matcher[o].id)] = tables[ShadowOf(matcher[o].id)]
            /\ wstep'.from = ShadowOf(matcher'[m].id)
            /\ wstep'.committed =>
                   wstep'.rows \subseteq
                       tables[wstep'.from].rows \cup tables'[wstep'.from].rows

\* C24, cross-matcher isolation: with several matchers on one watches
\* attachment, every step of a matcher M (its shadow DDL, its snapshot, a
\* handle_change, its teardown) changes no table but watches.query_{hex(M.id)}:
\* not a base table, not the rows or the existence of the shadow table of
\* another running matcher; and the rows M sends are rows of its own table.
C24_CrossMatcherIsolation == [][C24_MatcherStep]_vars

\* Two matchers are in their loops over shadow tables with different rows, and
\* the second has just committed a change and sent its row.
C24_Witness ==
    /\ \A m \in {1, 2} : matcher[m].at = "loop"
    /\ matcher[1].id # matcher[2].id
    /\ tables[ShadowOf(matcher[1].id)] # tables[ShadowOf(matcher[2].id)]
    /\ wstep.by = 2
    /\ wstep.op = "change"
    /\ wstep.committed
    /\ wstep.rows # {}

====
